---- MODULE Spec2Model ----
(***************************************************************************)
(* Model of the ID-card field heuristic of services/id_card_service.py     *)
(* (IDCardService.parse_id_card_data).  A Python str is modelled as the    *)
(* sequence of its characters, each character a one-character string, so   *)
(* that strip, lower, replace, the substring tests and the two regular     *)
(* expressions are computed character by character as Python computes      *)
(* them.                                                                   *)
(***************************************************************************)
EXTENDS Integers, Sequences, FiniteSets, TLC

VARIABLES extracted_text, sorted_text, id_data, idx, pc

vars == <<extracted_text, sorted_text, id_data, idx, pc>>

\* IDCardService._get_bbox_center: the polygon given and the value returned.
VARIABLES bbox, center

centerVars == <<bbox, center>>

\* IDCardService.process_id_card: the collaborators (detector, its results for
\* the image, the image file, the OCR engine and what it returns), the
\* pipeline stage, and the locals bbox, cropped_card, extracted_text and the
\* dict returned; ocr_read is the image region the OCR engine was given.
VARIABLES card_detector, yolo_results, image, ocr_engine, ocr_output,
          stage, detected, cropped_card, ocr_read, ocr_items, result

processVars ==
  <<card_detector, yolo_results, image, ocr_engine, ocr_output,
    stage, detected, cropped_card, ocr_read, ocr_items, result>>

\* batch_process_id_cards: the service, the uploaded files, the loop index, the lists results and uploaded_files, the files on disk, the response.
VARIABLES batch_service, batch_files, batch_i, batch_results, uploaded_files, batch_disk, batch_response, batch_pc

batchVars == <<batch_service, batch_files, batch_i, batch_results, uploaded_files, batch_disk, batch_response, batch_pc>>

\* The single-image POST endpoints: which endpoint, the service, the request, the temporary files on disk, the response.
VARIABLES http_endpoint, http_service, http_request, http_disk, http_response, http_pc

httpVars == <<http_endpoint, http_service, http_request, http_disk, http_response, http_pc>>

\* Successive calls of parse_id_card_data: the argument and the record returned by each finished call.
VARIABLES history

callsVars == <<history>>

\* Two requests of detect_and_extract_id_card handled in parallel: per request the upload, the position, file_path, result and the response; the upload folder, the uuids issued, and the file operations in the order they happened.
VARIABLES conc_upload, conc_pc, conc_path, conc_result, conc_response, conc_disk, conc_issued, conc_log

concVars == <<conc_upload, conc_pc, conc_path, conc_result, conc_response, conc_disk, conc_issued, conc_log>>

\* NSFWDetectionService: the classifier, the threshold, the call and its outcome
VARIABLES classifier, threshold, nsfw_call, nsfw_result, nsfw_pc

nsfwVars == <<classifier, threshold, nsfw_call, nsfw_result, nsfw_pc>>

allVars == <<vars, centerVars, processVars, batchVars, httpVars, callsVars, concVars, nsfwVars>>

\* Each specification below runs some components; the variables of the other
\* components stay at these values.
ParseIdle ==
  /\ extracted_text = <<>>
  /\ sorted_text = <<>>
  /\ id_data = <<>>
  /\ idx = 0
  /\ pc = "idle"

CenterIdle == bbox = <<>> /\ center = <<>>

ProcessIdle ==
  /\ card_detector = "idle"
  /\ yolo_results = <<>>
  /\ image = <<>>
  /\ ocr_engine = "idle"
  /\ ocr_output = <<>>
  /\ stage = "idle"
  /\ detected = <<>>
  /\ cropped_card = <<>>
  /\ ocr_read = <<>>
  /\ ocr_items = <<>>
  /\ result = <<>>

BatchIdle ==
  /\ batch_service = "idle"
  /\ batch_files = <<>>
  /\ batch_i = 0
  /\ batch_results = <<>>
  /\ uploaded_files = <<>>
  /\ batch_disk = {}
  /\ batch_response = <<>>
  /\ batch_pc = "idle"

HttpIdle ==
  /\ http_endpoint = "idle"
  /\ http_service = "idle"
  /\ http_request = <<>>
  /\ http_disk = {}
  /\ http_response = <<>>
  /\ http_pc = "idle"

CallsIdle ==
  /\ history = <<>>

ConcIdle ==
  /\ conc_upload = <<>>
  /\ conc_pc = <<>>
  /\ conc_path = <<>>
  /\ conc_result = <<>>
  /\ conc_response = <<>>
  /\ conc_disk = {}
  /\ conc_issued = {}
  /\ conc_log = <<>>

NsfwIdle ==
  /\ classifier = "idle"
  /\ threshold = 0
  /\ nsfw_call = <<>>
  /\ nsfw_result = <<>>
  /\ nsfw_pc = "idle"

IdleExcept(own) ==
  /\ IF "parse" \in own THEN TRUE ELSE ParseIdle
  /\ IF "center" \in own THEN TRUE ELSE CenterIdle
  /\ IF "process" \in own THEN TRUE ELSE ProcessIdle
  /\ IF "batch" \in own THEN TRUE ELSE BatchIdle
  /\ IF "http" \in own THEN TRUE ELSE HttpIdle
  /\ IF "calls" \in own THEN TRUE ELSE CallsIdle
  /\ IF "conc" \in own THEN TRUE ELSE ConcIdle
  /\ IF "nsfw" \in own THEN TRUE ELSE NsfwIdle

Frame(own) ==
  /\ IF "parse" \in own THEN TRUE ELSE UNCHANGED vars
  /\ IF "center" \in own THEN TRUE ELSE UNCHANGED centerVars
  /\ IF "process" \in own THEN TRUE ELSE UNCHANGED processVars
  /\ IF "batch" \in own THEN TRUE ELSE UNCHANGED batchVars
  /\ IF "http" \in own THEN TRUE ELSE UNCHANGED httpVars
  /\ IF "calls" \in own THEN TRUE ELSE UNCHANGED callsVars
  /\ IF "conc" \in own THEN TRUE ELSE UNCHANGED concVars
  /\ IF "nsfw" \in own THEN TRUE ELSE UNCHANGED nsfwVars

\* ---------------------------------------------------------------- bounds
\* Largest number of OCR text items in one call.
MaxItems == 2
\* Largest center y-coordinate of an item (y ranges over 0..MaxY).
MaxY == 1

\* ------------------------------------------------------------ characters
DigitChars == {"0", "1", "2", "3", "4", "5", "6", "7", "8", "9"}

UpperChars ==
  <<"A", "B", "C", "D", "E", "F", "G", "H", "I", "J", "K", "L", "M",
    "N", "O", "P", "Q", "R", "S", "T", "U", "V", "W", "X", "Y", "Z">>

LowerChars ==
  <<"a", "b", "c", "d", "e", "f", "g", "h", "i", "j", "k", "l", "m",
    "n", "o", "p", "q", "r", "s", "t", "u", "v", "w", "x", "y", "z">>

Range(f) == {f[k] : k \in DOMAIN f}

\* str.isspace of one character (the whitespace str.strip removes).
IsSpace(c) == c \in {" ", "\t", "\n", "\r"}

\* \d of the re module.
IsDigit(c) == c \in DigitChars

\* \w of the re module: letters, digits and the underscore.
WordChars == DigitChars \cup Range(UpperChars) \cup Range(LowerChars) \cup {"_"}

IsWord(c) == c \in WordChars

\* str.lower of one character.
LowerOf ==
  [c \in Range(UpperChars) |-> LowerChars[CHOOSE k \in DOMAIN UpperChars : UpperChars[k] = c]]

LowerChar(c) == IF c \in DOMAIN LowerOf THEN LowerOf[c] ELSE c

\* ------------------------------------------------------- str operations
\* text.lower()
lower(s) == [k \in 1..Len(s) |-> LowerChar(s[k])]

RECURSIVE lstrip(_)
lstrip(s) == IF s # <<>> /\ IsSpace(Head(s)) THEN lstrip(Tail(s)) ELSE s

RECURSIVE rstrip(_)
rstrip(s) ==
  IF s # <<>> /\ IsSpace(s[Len(s)]) THEN rstrip(SubSeq(s, 1, Len(s) - 1)) ELSE s

\* text.strip()
strip(s) == rstrip(lstrip(s))

\* sub in s
Contains(s, sub) ==
  \E k \in 1..(Len(s) - Len(sub) + 1) : SubSeq(s, k, k + Len(sub) - 1) = sub

\* s.replace(old, new) for a non-empty old: the non-overlapping occurrences
\* of old, found left to right, are each replaced by new.
RECURSIVE replace(_, _, _)
replace(s, old, new) ==
  IF Len(s) < Len(old) THEN s
  ELSE IF SubSeq(s, 1, Len(old)) = old
    THEN new \o replace(SubSeq(s, Len(old) + 1, Len(s)), old, new)
    ELSE <<Head(s)>> \o replace(Tail(s), old, new)

\* any(keyword in s for keyword in keywords)
AnyKeywordIn(keywords, s) == \E k \in DOMAIN keywords : Contains(s, keywords[k])

\* -------------------------------------------------- regular expressions
\* \b at the gap before position p (1..Len(s)+1): exactly one of the two
\* neighbouring characters is a word character; outside the string counts
\* as a non-word character.
WordAt(s, p) == p >= 1 /\ p <= Len(s) /\ IsWord(s[p])

WordBoundary(s, p) == WordAt(s, p - 1) # WordAt(s, p)

AllDigits(s, from, n) ==
  from + n - 1 <= Len(s) /\ \A k \in from..(from + n - 1) : IsDigit(s[k])

IsDateSep(s, p) == p <= Len(s) /\ s[p] \in {"-", "/"}

\* Mutant of id_pattern: the closing \b is missing, so the first 16 digits
\* of a longer run match.
id_pattern_open(text) ==
  \E p \in 1..Len(text) : WordBoundary(text, p) /\ AllDigits(text, p, 16)

\* re.search(r'\b\d{16}\b', text) is not None
id_pattern(text) ==
  \E p \in 1..Len(text) :
    WordBoundary(text, p) /\ AllDigits(text, p, 16) /\ WordBoundary(text, p + 16)

\* re.search(r'\b\d{1,2}[-/]\d{1,2}[-/]\d{4}\b', text) is not None
date_pattern(text) ==
  \E p \in 1..Len(text) : \E a \in 1..2 : \E b \in 1..2 :
    /\ WordBoundary(text, p)
    /\ AllDigits(text, p, a)
    /\ IsDateSep(text, p + a)
    /\ AllDigits(text, p + a + 1, b)
    /\ IsDateSep(text, p + a + 1 + b)
    /\ AllDigits(text, p + a + b + 2, 4)
    /\ WordBoundary(text, p + a + b + 6)

\* ------------------------------------------------------------- keywords
name_keywords == << <<"n", "a", "m", "a">>, <<"n", "a", "m", "e">> >>

Nama == <<"N", "a", "m", "a">>

Name == <<"N", "a", "m", "e">>

gender_keywords ==
  << <<"l", "a", "k", "i", "-", "l", "a", "k", "i">>,
     <<"p", "e", "r", "e", "m", "p", "u", "a", "n">>,
     <<"m", "a", "l", "e">>,
     <<"f", "e", "m", "a", "l", "e">> >>

addr_keywords ==
  << <<"j", "l">>, <<"j", "a", "l", "a", "n">>, <<"r", "t">>, <<"r", "w">>,
     <<"k", "e", "l">>, <<"k", "e", "c">>, <<"J", "L">> >>

\* ---------------------------------------------------------------- inputs
\* Texts the OCR collaborator may return for one item.
Pool ==
  <<
    \* 1: 'ID 1234567890123456 rest'
    <<"I", "D", " ", "1", "2", "3", "4", "5", "6", "7", "8", "9", "0", "1", "2", "3", "4", "5", "6", " ", "r", "e", "s", "t">>,
    \* 2: ' 3174012345678901 '
    <<" ", "3", "1", "7", "4", "0", "1", "2", "3", "4", "5", "6", "7", "8", "9", "0", "1", " ">>,
    \* 3: '12345678901234567'
    <<"1", "2", "3", "4", "5", "6", "7", "8", "9", "0", "1", "2", "3", "4", "5", "6", "7">>,
    \* 4: 'Nama: Budi Hartono X'
    <<"N", "a", "m", "a", ":", " ", "B", "u", "d", "i", " ", "H", "a", "r", "t", "o", "n", "o", " ", "X">>,
    \* 5: 'Name: Siti Aminah Y'
    <<"N", "a", "m", "e", ":", " ", "S", "i", "t", "i", " ", "A", "m", "i", "n", "a", "h", " ", "Y">>,
    \* 6: 'NAMA BUDI 1-1-1990'
    <<"N", "A", "M", "A", " ", "B", "U", "D", "I", " ", "1", "-", "1", "-", "1", "9", "9", "0">>,
    \* 7: 'Nama: Budi'
    <<"N", "a", "m", "a", ":", " ", "B", "u", "d", "i">>,
    \* 8: 'Nama   Name'
    <<"N", "a", "m", "a", " ", " ", " ", "N", "a", "m", "e">>,
    \* 9: 'Lahir: 17-08-1990'
    <<"L", "a", "h", "i", "r", ":", " ", "1", "7", "-", "0", "8", "-", "1", "9", "9", "0">>,
    \* 10: '1/2-2000 Female'
    <<"1", "/", "2", "-", "2", "0", "0", "0", " ", "F", "e", "m", "a", "l", "e">>,
    \* 11: '17-08-19901'
    <<"1", "7", "-", "0", "8", "-", "1", "9", "9", "0", "1">>,
    \* 12: 'LAKI-LAKI'
    <<"L", "A", "K", "I", "-", "L", "A", "K", "I">>,
    \* 13: 'Jl. Merdeka No 5'
    <<"J", "l", ".", " ", "M", "e", "r", "d", "e", "k", "a", " ", "N", "o", " ", "5">>,
    \* 14: '\tRT 01 RW 02 '
    <<"\t", "R", "T", " ", "0", "1", " ", "R", "W", " ", "0", "2", " ">>,
    \* 15: 'Nama: Martin, Male 2/3/1999'
    <<"N", "a", "m", "a", ":", " ", "M", "a", "r", "t", "i", "n", ",", " ", "M", "a", "l", "e", " ", "2", "/", "3", "/", "1", "9", "9", "9">>
  >>

\* Name-rule length threshold: len(text) > 10.
NameMinLen == 10

\* One OCR text item: its text and its center (x, y); the parser reads
\* item["text"] and item["center"][1] only.
Items == {[text |-> Pool[k], center |-> <<0, y>>] : k \in DOMAIN Pool, y \in 0..MaxY}

RECURSIVE SeqsUpTo(_, _)
SeqsUpTo(S, n) ==
  IF n = 0 THEN {<<>>}
  ELSE LET shorter == SeqsUpTo(S, n - 1)
       IN  shorter \cup {Append(q, e) : q \in {r \in shorter : Len(r) = n - 1}, e \in S}

\* ---------------------------------------------------------------- record
EmptyStr == <<>>

\* Mutant of NewIdData: nationality starts with a default value.
NewIdData_default ==
  [id_number |-> <<>>, name |-> <<>>, place_of_birth |-> <<>>,
   date_of_birth |-> <<>>, gender |-> <<>>, address |-> <<>>,
   religion |-> <<>>, marital_status |-> <<>>, occupation |-> <<>>,
   nationality |-> <<"W", "N", "I">>, valid_until |-> <<>>, raw_text |-> <<>>]

NewIdData ==
  [id_number |-> EmptyStr, name |-> EmptyStr, place_of_birth |-> EmptyStr,
   date_of_birth |-> EmptyStr, gender |-> EmptyStr, address |-> EmptyStr,
   religion |-> EmptyStr, marital_status |-> EmptyStr, occupation |-> EmptyStr,
   nationality |-> EmptyStr, valid_until |-> EmptyStr, raw_text |-> <<>>]

\* ------------------------------------------------------------------ sort
\* Mutant of InsertByY: an item goes before the items of equal key.
RECURSIVE InsertByY_unstable(_, _)
InsertByY_unstable(sortedSeq, item) ==
  IF sortedSeq = <<>> THEN <<item>>
  ELSE IF sortedSeq[Len(sortedSeq)].center[2] < item.center[2]
    THEN Append(sortedSeq, item)
    ELSE Append(InsertByY_unstable(SubSeq(sortedSeq, 1, Len(sortedSeq) - 1), item),
                sortedSeq[Len(sortedSeq)])

\* sorted(extracted_text, key=lambda x: x["center"][1]): a stable sort, so
\* an item is inserted after every item whose key is not greater.
RECURSIVE InsertByY(_, _)
InsertByY(sortedSeq, item) ==
  IF sortedSeq = <<>> THEN <<item>>
  ELSE IF sortedSeq[Len(sortedSeq)].center[2] <= item.center[2]
    THEN Append(sortedSeq, item)
    ELSE Append(InsertByY(SubSeq(sortedSeq, 1, Len(sortedSeq) - 1), item),
                sortedSeq[Len(sortedSeq)])

\* Mutant of sorted: the sort is left out, the items stay in OCR order.
sorted_omitted(items) == items

RECURSIVE sorted(_)
sorted(items) ==
  IF items = <<>> THEN <<>>
  ELSE InsertByY(sorted(SubSeq(items, 1, Len(items) - 1)), items[Len(items)])

\* ----------------------------------------------------------- field rules
\* id_data["raw_text"].append(text)
AppendRaw(d, text) == [d EXCEPT !.raw_text = Append(@, text)]

\* Mutant of IdRule: the "and not id_data[...]" guard is missing.
IdRule_unguarded(d, text) ==
  IF id_pattern(text) THEN [d EXCEPT !.id_number = text] ELSE d

IdRule(d, text) ==
  IF id_pattern(text) /\ d.id_number = EmptyStr
    THEN [d EXCEPT !.id_number = text]
    ELSE d

\* Mutant of NameFires: len(text) >= 10 instead of > 10.
NameFires_ge(text) ==
  AnyKeywordIn(name_keywords, lower(text)) /\ Len(text) >= NameMinLen

NameFires(text) == AnyKeywordIn(name_keywords, lower(text)) /\ Len(text) > NameMinLen

CleanName(text) == strip(replace(replace(text, Nama, EmptyStr), Name, EmptyStr))

\* Mutant of NameRule: guarded like id_number, so the first match wins.
NameRule_guarded(d, text) ==
  IF NameFires(text) /\ d.name = EmptyStr
    THEN [d EXCEPT !.name = CleanName(text)]
    ELSE d

NameRule(d, text) ==
  IF NameFires(text) THEN [d EXCEPT !.name = CleanName(text)] ELSE d

\* Mutant of DateRule: the "and not id_data[...]" guard is missing.
DateRule_unguarded(d, text) ==
  IF date_pattern(text) THEN [d EXCEPT !.date_of_birth = text] ELSE d

\* Mutant of DateRule: the date line is stored under place_of_birth.
DateRule_place(d, text) ==
  IF date_pattern(text) /\ d.date_of_birth = EmptyStr
    THEN [d EXCEPT !.place_of_birth = text]
    ELSE d

DateRule(d, text) ==
  IF date_pattern(text) /\ d.date_of_birth = EmptyStr
    THEN [d EXCEPT !.date_of_birth = text]
    ELSE d

GenderFires(text) == AnyKeywordIn(gender_keywords, lower(text))

\* Mutant of GenderRule: guarded like id_number, so the first match wins.
GenderRule_guarded(d, text) ==
  IF GenderFires(text) /\ d.gender = EmptyStr
    THEN [d EXCEPT !.gender = text]
    ELSE d

GenderRule(d, text) ==
  IF GenderFires(text) THEN [d EXCEPT !.gender = text] ELSE d

AddressFires(text) == AnyKeywordIn(addr_keywords, lower(text))

\* Mutant of AddressRule: the matching line replaces the address instead of
\* being appended to it.
AddressRule_overwrite(d, text) ==
  IF AddressFires(text) THEN [d EXCEPT !.address = text] ELSE d

AddressRule(d, text) ==
  IF AddressFires(text)
    THEN IF d.address = EmptyStr
           THEN [d EXCEPT !.address = text]
           ELSE [d EXCEPT !.address = @ \o <<" ">> \o text]
    ELSE d

\* Mutant of ProcessItem: the rules are chained with elif, so at most one
\* of them runs on a line.
ProcessItem_elif(d, item) ==
  LET text == strip(item.text)
      r == AppendRaw(d, text)
  IN  IF id_pattern(text) /\ d.id_number = EmptyStr THEN IdRule(r, text)
      ELSE IF NameFires(text) THEN NameRule(r, text)
      ELSE IF date_pattern(text) /\ d.date_of_birth = EmptyStr THEN DateRule(r, text)
      ELSE IF GenderFires(text) THEN GenderRule(r, text)
      ELSE AddressRule(r, text)

\* The body of the for loop, for one item.
ProcessItem(d, item) ==
  LET text == strip(item.text)
  IN  AddressRule(GenderRule(DateRule(NameRule(IdRule(AppendRaw(d, text), text),
                                               text), text), text), text)

\* --------------------------------------------------------------- machine
Init ==
  /\ extracted_text \in SeqsUpTo(Items, MaxItems)
  /\ sorted_text = <<>>
  /\ id_data = NewIdData
  /\ idx = 0
  /\ pc = "call"
  /\ IdleExcept({"parse"})

\* Mutant of Begin: the record is not built anew at the entry.
Begin_stale ==
  /\ pc = "call"
  /\ sorted_text' = sorted(extracted_text)
  /\ idx' = 1
  /\ pc' = "loop"
  /\ UNCHANGED <<extracted_text, id_data>>
  /\ Frame({"parse"})

\* Entry of parse_id_card_data: the fresh record and the sort.
Begin ==
  /\ pc = "call"
  /\ id_data' = NewIdData
  /\ sorted_text' = sorted(extracted_text)
  /\ idx' = 1
  /\ pc' = "loop"
  /\ UNCHANGED extracted_text
  /\ Frame({"parse"})

\* Mutant of LoopBody: the loop stops one item short.
LoopBody_short ==
  /\ pc = "loop"
  /\ idx < Len(sorted_text)
  /\ id_data' = ProcessItem(id_data, sorted_text[idx])
  /\ idx' = idx + 1
  /\ UNCHANGED <<extracted_text, sorted_text, pc>>
  /\ Frame({"parse"})

\* One iteration of "for item in sorted_text".
LoopBody ==
  /\ pc = "loop"
  /\ idx <= Len(sorted_text)
  /\ id_data' = ProcessItem(id_data, sorted_text[idx])
  /\ idx' = idx + 1
  /\ UNCHANGED <<extracted_text, sorted_text, pc>>
  /\ Frame({"parse"})

\* "return id_data" once the loop is exhausted.
Return ==
  /\ pc = "loop"
  /\ idx > Len(sorted_text)
  /\ pc' = "done"
  /\ UNCHANGED <<extracted_text, sorted_text, id_data, idx>>
  /\ Frame({"parse"})

Next == Begin \/ LoopBody \/ Return

Spec == Init /\ [][Next]_allVars

\* ============================================================ properties
\* Vocabulary of the properties, stated on the characters of a line without
\* the operators of the model above.

Min(S) == CHOOSE k \in S : \A m \in S : k <= m

Max(S) == CHOOSE k \in S : \A m \in S : m <= k

NonSpace(s) == {k \in 1..Len(s) : ~IsSpace(s[k])}

\* s without its leading and trailing whitespace.
Trimmed(s) ==
  IF NonSpace(s) = {} THEN <<>> ELSE SubSeq(s, Min(NonSpace(s)), Max(NonSpace(s)))

\* Number of lines of the card, and line k in top-to-bottom (processing) order.
NLines == Len(sorted_text)

Line(k) == Trimmed(sorted_text[k].text)

\* The first and the last of the lines 1..n that satisfy P; "" when none does.
FirstLine(P(_), n) ==
  IF \E k \in 1..n : P(Line(k))
    THEN Line(CHOOSE k \in 1..n : P(Line(k)) /\ \A j \in 1..(k - 1) : ~P(Line(j)))
    ELSE <<>>

LastLine(P(_), n) ==
  IF \E k \in 1..n : P(Line(k))
    THEN Line(CHOOSE k \in 1..n : P(Line(k)) /\ \A j \in (k + 1)..n : ~P(Line(j)))
    ELSE <<>>

\* t holds a run of exactly 16 digits with no word character on either side.
HasIdRun(t) ==
  \E p \in 1..(Len(t) - 15) :
    /\ \A k \in p..(p + 15) : t[k] \in DigitChars
    /\ (p = 1 \/ t[p - 1] \notin WordChars)
    /\ (p + 16 > Len(t) \/ t[p + 16] \notin WordChars)

\* t holds "nama" or "name" in any letter case and has more than 10 characters.
NameRuleHolds(t) ==
  /\ Len(t) >= 11
  /\ \E k \in 1..(Len(t) - 3) :
       /\ LowerChar(t[k]) = "n"
       /\ LowerChar(t[k + 1]) = "a"
       /\ LowerChar(t[k + 2]) = "m"
       /\ LowerChar(t[k + 3]) \in {"a", "e"}

\* t with the characters of every occurrence of w left out.
Occurrences(t, w) == {k \in 1..(Len(t) - Len(w) + 1) : SubSeq(t, k, k + Len(w) - 1) = w}

Covered(t, w) ==
  {k \in 1..Len(t) : \E o \in Occurrences(t, w) : o <= k /\ k < o + Len(w)}

Keep(t, S) ==
  [j \in 1..Cardinality(S) |-> t[CHOOSE k \in S : Cardinality({m \in S : m < k}) = j - 1]]

Without(t, w) == Keep(t, (1..Len(t)) \ Covered(t, w))

\* t with "Nama", then "Name", removed (case-sensitively), then trimmed.
Cleaned(t) ==
  Trimmed(Without(Without(t, <<"N", "a", "m", "a">>), <<"N", "a", "m", "e">>))

Bijections(n) == {f \in [1..n -> 1..n] : \A a, b \in 1..n : f[a] = f[b] => a = b}

\* C1: the returned raw_text has as many entries as the input, and they are
\* the trimmed texts of the input items, each taken once, in ascending order
\* of center y.
C1_RawTextIsInputByY ==
  pc = "done" =>
    /\ Len(id_data.raw_text) = Len(extracted_text)
    /\ \E f \in Bijections(Len(extracted_text)) :
         /\ \A k \in 1..Len(extracted_text) :
              id_data.raw_text[k] = Trimmed(extracted_text[f[k]].text)
         /\ \A k \in 1..(Len(extracted_text) - 1) :
              extracted_text[f[k]].center[2] <= extracted_text[f[k + 1]].center[2]

\* Two items given bottom-first, the texts differing and one with whitespace
\* around it, have been parsed.
C1_Witness ==
  /\ pc = "done"
  /\ Len(extracted_text) = 2
  /\ extracted_text[1].center[2] > extracted_text[2].center[2]
  /\ Trimmed(extracted_text[1].text) # Trimmed(extracted_text[2].text)
  /\ Trimmed(extracted_text[2].text) # extracted_text[2].text
  /\ id_data.raw_text[1] = Trimmed(extracted_text[2].text)

C2_Final == pc = "done" => id_data.id_number = FirstLine(HasIdRun, NLines)

C2_Stable == id_data.id_number # <<>> => id_data'.id_number = id_data.id_number

\* C2: id_number is first-match-wins: in the returned record it is the full
\* trimmed text of the first line, top to bottom, that holds a run of exactly
\* 16 digits between word boundaries, "" when no line does, and once set no
\* step of the scan changes it.
C2_IdNumberFirstMatch == []C2_Final /\ [][C2_Stable]_vars

\* Two different lines with a 16-digit run have been parsed: the first one is
\* the id_number, longer than its digit run.
C2_Witness ==
  /\ pc = "done"
  /\ NLines = 2
  /\ HasIdRun(Line(1)) /\ HasIdRun(Line(2))
  /\ Line(1) # Line(2)
  /\ id_data.id_number = Line(1)
  /\ Len(id_data.id_number) > 16

\* C3: name is last-match-wins: when lines satisfy the name rule, the returned
\* name is the cleaned text of the last of them, top to bottom.
C3_NameLastMatch ==
  (pc = "done" /\ \E k \in 1..NLines : NameRuleHolds(Line(k)))
    => id_data.name = Cleaned(LastLine(NameRuleHolds, NLines))

\* Two lines with different cleaned texts both satisfied the name rule: the
\* second one is the name.
C3_Witness ==
  /\ pc = "done"
  /\ NLines = 2
  /\ NameRuleHolds(Line(1)) /\ NameRuleHolds(Line(2))
  /\ Cleaned(Line(1)) # Cleaned(Line(2))
  /\ id_data.name = Cleaned(Line(2))

\* p, a, b place a date in t: a digits from p, a separator, b digits, a
\* separator, four digits.
DateShape(t, p, a, b) ==
  /\ p + a + b + 5 <= Len(t)
  /\ \A k \in p..(p + a - 1) : t[k] \in DigitChars
  /\ t[p + a] \in {"-", "/"}
  /\ \A k \in (p + a + 1)..(p + a + b) : t[k] \in DigitChars
  /\ t[p + a + b + 1] \in {"-", "/"}
  /\ \A k \in (p + a + b + 2)..(p + a + b + 5) : t[k] \in DigitChars

\* t contains 1-2 digits, a separator, 1-2 digits, a separator, 4 digits.
ContainsDateShape(t) ==
  \E p \in 1..Len(t) : \E a \in 1..2 : \E b \in 1..2 : DateShape(t, p, a, b)

\* The same with no word character right before or right after the date.
HasBoundedDate(t) ==
  \E p \in 1..Len(t) : \E a \in 1..2 : \E b \in 1..2 :
    /\ DateShape(t, p, a, b)
    /\ (p = 1 \/ t[p - 1] \notin WordChars)
    /\ (p + a + b + 6 > Len(t) \/ t[p + a + b + 6] \notin WordChars)

\* t contains the lower-case token tok in any letter case.
HasToken(t, tok) ==
  \E k \in 1..(Len(t) - Len(tok) + 1) :
    \A j \in 1..Len(tok) : LowerChar(t[k + j - 1]) = tok[j]

GenderRuleHolds(t) ==
  \/ HasToken(t, <<"l", "a", "k", "i", "-", "l", "a", "k", "i">>)
  \/ HasToken(t, <<"p", "e", "r", "e", "m", "p", "u", "a", "n">>)
  \/ HasToken(t, <<"m", "a", "l", "e">>)
  \/ HasToken(t, <<"f", "e", "m", "a", "l", "e">>)

AddressRuleHolds(t) ==
  \/ HasToken(t, <<"j", "l">>)
  \/ HasToken(t, <<"j", "a", "l", "a", "n">>)
  \/ HasToken(t, <<"r", "t">>)
  \/ HasToken(t, <<"r", "w">>)
  \/ HasToken(t, <<"k", "e", "l">>)
  \/ HasToken(t, <<"k", "e", "c">>)

IsPrefix(s, t) == Len(s) <= Len(t) /\ SubSeq(t, 1, Len(s)) = s

\* The line about to be processed, when a loop iteration is the next step.
AtLine == pc = "loop" /\ idx <= NLines

\* The original C4: the name, too, is the value set by the first line that
\* satisfies its rule.
C4_AllFirstMatch ==
  pc = "done" =>
    /\ id_data.id_number = FirstLine(HasIdRun, NLines)
    /\ id_data.date_of_birth = FirstLine(HasBoundedDate, NLines)
    /\ (\E k \in 1..NLines : NameRuleHolds(Line(k)))
         => id_data.name = Cleaned(FirstLine(NameRuleHolds, NLines))

C4_Step ==
  /\ id_data.id_number # <<>> => id_data'.id_number = id_data.id_number
  /\ id_data.date_of_birth # <<>> => id_data'.date_of_birth = id_data.date_of_birth
  /\ (AtLine /\ NameRuleHolds(Line(idx))) => id_data'.name = Cleaned(Line(idx))

\* C4 (amended): of the singleton fields, id_number and date_of_birth are
\* first-match-wins (once set, no later line changes them); name is not: every
\* line that satisfies the name rule overwrites it with its own cleaned text.
C4_FirstMatchExceptName == [][C4_Step]_vars

\* Two different lines that both satisfy the name rule and both hold a date
\* have been parsed: the date is the first line, the name comes from the second.
C4_Witness ==
  /\ pc = "done"
  /\ NLines = 2
  /\ NameRuleHolds(Line(1)) /\ NameRuleHolds(Line(2))
  /\ HasBoundedDate(Line(1)) /\ HasBoundedDate(Line(2))
  /\ Cleaned(Line(1)) # Cleaned(Line(2))
  /\ id_data.date_of_birth = Line(1)
  /\ id_data.name = Cleaned(Line(2))

C5_Step ==
  AtLine =>
    id_data'.name =
      IF NameRuleHolds(Line(idx)) THEN Cleaned(Line(idx)) ELSE id_data.name

\* C5: an iteration sets name exactly when its trimmed line contains "nama" or
\* "name" in any letter case and is longer than 10 characters, and then to the
\* line with the case-sensitive "Nama" and "Name" removed and the rest trimmed;
\* otherwise name is left as it was.
C5_NameRule == [][C5_Step]_vars

\* A line with "Nama" and then a line with "NAMA" both fired: the name is the
\* whole second line, its upper-case "NAMA" still in it.
C5_Witness ==
  /\ pc = "done"
  /\ NLines = 2
  /\ NameRuleHolds(Line(1)) /\ Occurrences(Line(1), <<"N", "a", "m", "a">>) # {}
  /\ Cleaned(Line(1)) # Line(1)
  /\ NameRuleHolds(Line(2)) /\ Occurrences(Line(2), <<"N", "A", "M", "A">>) # {}
  /\ id_data.name = Line(2)

C6_Final == pc = "done" => id_data.date_of_birth = FirstLine(HasBoundedDate, NLines)

C6_Stable ==
  id_data.date_of_birth # <<>> => id_data'.date_of_birth = id_data.date_of_birth

RECURSIVE AddrJoin(_)
AddrJoin(n) ==
  IF n = 0 THEN <<>>
  ELSE IF ~AddressRuleHolds(Line(n)) THEN AddrJoin(n - 1)
  ELSE IF \A j \in 1..(n - 1) : ~AddressRuleHolds(Line(j)) THEN Line(n)
  ELSE AddrJoin(n - 1) \o <<" ">> \o Line(n)

C7_Final == pc = "done" => id_data.address = AddrJoin(NLines)

C7_Grows == IsPrefix(id_data.address, id_data'.address)

\* C7: the returned address is the trimmed texts of all lines that contain one
\* of jl, jalan, rt, rw, kel, kec in any letter case, in top-to-bottom order
\* with exactly one space between two of them, "" when there is none; and at
\* every step the address before is a prefix of the address after.
C7_AddressAccumulates == []C7_Final /\ [][C7_Grows]_vars

\* Two address lines have been parsed and the address is both, space-joined.
C7_Witness ==
  /\ pc = "done"
  /\ NLines >= 2
  /\ AddressRuleHolds(Line(1)) /\ AddressRuleHolds(Line(2))
  /\ Line(1) # Line(2)
  /\ IsPrefix(Line(1) \o <<" ">> \o Line(2), id_data.address)

\* C8: the returned gender is the full trimmed text of the last line, top to
\* bottom, that contains "laki-laki", "perempuan", "male" or "female" in any
\* letter case, "" when no line does.
C8_GenderLastMatch == pc = "done" => id_data.gender = LastLine(GenderRuleHolds, NLines)

\* Two different gender lines have been parsed: the second one is the gender.
C8_Witness ==
  /\ pc = "done"
  /\ NLines = 2
  /\ GenderRuleHolds(Line(1)) /\ GenderRuleHolds(Line(2))
  /\ Line(1) # Line(2)
  /\ id_data.gender = Line(2)

Placeholders ==
  {id_data.place_of_birth, id_data.religion, id_data.marital_status,
   id_data.occupation, id_data.nationality, id_data.valid_until}

\* C9: place_of_birth, religion, marital_status, occupation, nationality and
\* valid_until are "" at the call, after every step of the scan and in the
\* returned record.
C9_PlaceholdersEmpty == Placeholders = {<<>>}

\* A card whose lines set all five heuristic fields has been parsed, and the
\* placeholders are still empty.
C9_Witness ==
  /\ pc = "done"
  /\ NLines >= 2
  /\ id_data.id_number # <<>> /\ id_data.name # <<>> /\ id_data.date_of_birth # <<>>
  /\ id_data.gender # <<>> /\ id_data.address # <<>>
  /\ Placeholders = {<<>>}

\* C10: in the returned record each of id_number, name, date_of_birth, gender
\* and address is "" if and only if no line satisfied the field's rule.
C10_EmptyIffNoMatch ==
  pc = "done" =>
    /\ id_data.id_number = <<>> <=> ~\E k \in 1..NLines : HasIdRun(Line(k))
    /\ id_data.name = <<>> <=> ~\E k \in 1..NLines : NameRuleHolds(Line(k))
    /\ id_data.date_of_birth = <<>> <=> ~\E k \in 1..NLines : HasBoundedDate(Line(k))
    /\ id_data.gender = <<>> <=> ~\E k \in 1..NLines : GenderRuleHolds(Line(k))
    /\ id_data.address = <<>> <=> ~\E k \in 1..NLines : AddressRuleHolds(Line(k))

\* The eleven named fields of the record.
FieldNames ==
  {"id_number", "name", "place_of_birth", "date_of_birth", "gender", "address",
   "religion", "marital_status", "occupation", "nationality", "valid_until"}

\* C11: for the empty item list the returned record has the eleven named
\* fields, all "", and raw_text = [].
C11_EmptyInputEmptyRecord ==
  (pc = "done" /\ extracted_text = <<>>) =>
    /\ DOMAIN id_data = FieldNames \cup {"raw_text"}
    /\ \A f \in FieldNames : id_data[f] = <<>>
    /\ id_data.raw_text = <<>>

\* The call on the empty list has returned, without a loop iteration.
C11_Witness ==
  /\ pc = "done"
  /\ extracted_text = <<>>
  /\ idx = 1
  /\ id_data.raw_text = <<>>

\* ================================================= bounding-polygon center
\* Largest coordinate of a polygon point (coordinates range over 0..MaxCoord).
MaxCoord == 1

\* A polygon of n entries with m numbers each.
PolygonsOf(n, m) == [1..n -> [1..m -> 0..MaxCoord]]

\* The polygons handed to _get_bbox_center: 4 points of 2 coordinates, two
\* parallel lists of 4 coordinates, 3 points and 5 points.
Polygons ==
  PolygonsOf(4, 2) \cup PolygonsOf(2, 4) \cup PolygonsOf(3, 2) \cup PolygonsOf(5, 2)

\* sum(coords) / len(coords), kept exact as <<numerator, denominator>>.
Quotient(num, den) == <<num, den>>

RECURSIVE SumSeq(_)
SumSeq(q) == IF q = <<>> THEN 0 ELSE Head(q) + SumSeq(Tail(q))

\* Coordinates are floats. A float keeps a fixed number of significant bits
\* (53 in Python; FloatBits here, so that sums that need rounding lie within
\* small coordinates), and every addition rounds its exact result to the
\* nearest float, ties to the even significand. Division by 4 is exact.
FloatBits == 5

\* The spacing of the floats around n >= 0.
RECURSIVE UlpFrom(_, _)
UlpFrom(n, u) == IF n < (2 ^ FloatBits) * u THEN u ELSE UlpFrom(n, 2 * u)

\* n >= 0 rounded to the nearest float.
fl(n) ==
  LET u == UlpFrom(n, 1)
      q == n \div u
      r == n % u
  IN  IF 2 * r < u THEN q * u
      ELSE IF 2 * r > u THEN (q + 1) * u
      ELSE IF q % 2 = 0 THEN q * u
      ELSE (q + 1) * u

\* Mutant of float_sum: the numbers are added from the last to the first.
RECURSIVE float_sum_backward(_)
float_sum_backward(q) ==
  IF q = <<>> THEN 0 ELSE fl(float_sum_backward(Tail(q)) + Head(q))

\* sum(coords): 0 + coords[0] + coords[1] + ..., added from left to right.
RECURSIVE float_sum(_)
float_sum(q) ==
  IF q = <<>> THEN 0
  ELSE fl(float_sum(SubSeq(q, 1, Len(q) - 1)) + q[Len(q)])

\* The value returned, or the IndexError a list index out of range raises.
Returned(x_coords, y_coords) ==
  [kind |-> "ok",
   x |-> Quotient(float_sum(x_coords), Len(x_coords)),
   y |-> Quotient(float_sum(y_coords), Len(y_coords))]

Raised(error) == [kind |-> error, x |-> Quotient(0, 1), y |-> Quotient(0, 1)]

\* q[i][j] of Python (0-based) is defined.
HasIndex(q, i, j) == i + 1 <= Len(q) /\ j + 1 <= Len(q[i + 1])

get_bbox_center(b) ==
  IF Len(b) = 4 /\ Len(b[1]) = 2
    THEN \* PaddleOCR format: point[0] and point[1] of every point
         IF \A k \in 0..(Len(b) - 1) : HasIndex(b, k, 1)
           THEN Returned([k \in 1..Len(b) |-> b[k][1]], [k \in 1..Len(b) |-> b[k][2]])
           ELSE Raised("IndexError")
    ELSE \* EasyOCR format: bbox[0..3][0] and bbox[0..3][1]
         IF \A k \in 0..3 : HasIndex(b, k, 1)
           THEN Returned(<<b[1][1], b[2][1], b[3][1], b[4][1]>>,
                         <<b[1][2], b[2][2], b[3][2], b[4][2]>>)
           ELSE Raised("IndexError")

CenterInit ==
  /\ bbox \in Polygons
  /\ center = [kind |-> "pending", x |-> Quotient(0, 1), y |-> Quotient(0, 1)]
  /\ IdleExcept({"center"})

\* The call self._get_bbox_center(bbox).
GetBboxCenter ==
  /\ center.kind = "pending"
  /\ center' = get_bbox_center(bbox)
  /\ UNCHANGED bbox
  /\ Frame({"center"})

CenterNext == GetBboxCenter

SpecCenter == CenterInit /\ [][CenterNext]_allVars

\* The two encodings of a quadrilateral and the mean of its corners.
IsFourPoints(b) == Len(b) = 4 /\ \A k \in 1..4 : Len(b[k]) = 2

IsParallelLists(b) == Len(b) = 2 /\ \A k \in 1..2 : Len(b[k]) = 4

MeanOfFour(a, b, c, d) == <<a + b + c + d, 4>>

\* C17: the center of a quadrilateral is returned without error for both
\* encodings: for 4 (x,y) pairs the mean of the x and the mean of the y of
\* the pairs, and for two parallel lists (4 x-values, 4 y-values) the same
\* point, the mean of the first list and the mean of the second.
C17_BothEncodingsAccepted ==
  center.kind # "pending" =>
    /\ IsFourPoints(bbox) =>
         /\ center.kind = "ok"
         /\ center.x = MeanOfFour(bbox[1][1], bbox[2][1], bbox[3][1], bbox[4][1])
         /\ center.y = MeanOfFour(bbox[1][2], bbox[2][2], bbox[3][2], bbox[4][2])
    /\ IsParallelLists(bbox) =>
         /\ center.kind = "ok"
         /\ center.x = MeanOfFour(bbox[1][1], bbox[1][2], bbox[1][3], bbox[1][4])
         /\ center.y = MeanOfFour(bbox[2][1], bbox[2][2], bbox[2][3], bbox[2][4])

\* C18: for a polygon that is neither 4 (x,y) pairs nor two parallel lists of
\* 4 coordinates, the center computation raises an error instead of
\* returning a center.
C18_MalformedPolygonRaises ==
  (center.kind # "pending" /\ ~IsFourPoints(bbox) /\ ~IsParallelLists(bbox))
    => center.kind \notin {"ok", "pending"}

\* ========================================================= card detection
\* Largest number of boxes the detector returns for one image.
MaxBoxes == 2
\* Largest box coordinate, in half pixels: the detector's coordinates are
\* floats, modelled as multiples of 0.5 from 0 to MaxHalf / 2.
MaxHalf == 2

\* The xyxy boxes of the detector, x1 < x2 and y1 < y2, in half pixels.
FloatBoxes ==
  {b \in [1..4 -> 0..MaxHalf] : b[1] < b[3] /\ b[2] < b[4]}

\* None, as returned for "no card".
None == <<>>

\* (x[2]-x[0])*(x[3]-x[1]), in quarter square pixels.
Area(b) == (b[3] - b[1]) * (b[4] - b[2])

\* int(v) of a float v >= 0 given in half pixels: truncation.
IntOfHalf(h) == h \div 2

\* tuple(map(int, largest_box))
IntBox(b) == <<IntOfHalf(b[1]), IntOfHalf(b[2]), IntOfHalf(b[3]), IntOfHalf(b[4])>>

\* Mutant of largest_box: the key is the width only.
largest_box_by_width(boxes) ==
  boxes[CHOOSE k \in 1..Len(boxes) :
          /\ \A j \in 1..Len(boxes) : boxes[j][3] - boxes[j][1] <= boxes[k][3] - boxes[k][1]
          /\ \A j \in 1..(k - 1) : boxes[j][3] - boxes[j][1] < boxes[k][3] - boxes[k][1]]

\* max(boxes, key=area): the first box whose area no other box exceeds.
largest_box(boxes) ==
  boxes[CHOOSE k \in 1..Len(boxes) :
          /\ \A j \in 1..Len(boxes) : Area(boxes[j]) <= Area(boxes[k])
          /\ \A j \in 1..(k - 1) : Area(boxes[j]) < Area(boxes[k])]

\* The for loop over results: the first result that has boxes decides.
RECURSIVE first_detection(_)
first_detection(results) ==
  IF results = <<>> THEN None
  ELSE IF Len(Head(results)) > 0 THEN IntBox(largest_box(Head(results)))
  ELSE first_detection(Tail(results))

\* detect_id_card: None without a detector or when the detector raises.
detect_id_card(detector, results) ==
  IF detector = "not loaded" THEN None
  ELSE IF detector = "raises" THEN None
  ELSE first_detection(results)

RECURSIVE BoxSeqsUpTo(_, _)
BoxSeqsUpTo(S, n) ==
  IF n = 0 THEN {<<>>}
  ELSE LET shorter == BoxSeqsUpTo(S, n - 1)
       IN  shorter \cup {Append(q, e) : q \in {r \in shorter : Len(r) = n - 1}, e \in S}

\* The detector is called on one image and returns one result for it.
DetectInit ==
  /\ card_detector \in {"not loaded", "loaded", "raises"}
  /\ yolo_results \in {<<boxes>> : boxes \in BoxSeqsUpTo(FloatBoxes, MaxBoxes)}
  /\ image = <<>>
  /\ ocr_engine = "idle"
  /\ ocr_output = <<>>
  /\ stage = "detect"
  /\ detected = None
  /\ cropped_card = <<>>
  /\ ocr_read = <<>>
  /\ ocr_items = <<>>
  /\ result = <<>>
  /\ IdleExcept({"process"})

\* Step 1 of process_id_card: bbox = self.detect_id_card(image_path).
Detect ==
  /\ stage = "detect"
  /\ detected' = detect_id_card(card_detector, yolo_results)
  /\ stage' = "crop"
  /\ UNCHANGED <<card_detector, yolo_results, image, ocr_engine, ocr_output,
                 cropped_card, ocr_read, ocr_items, result>>
  /\ Frame({"process"})

DetectNext == Detect

SpecDetect == DetectInit /\ [][DetectNext]_allVars

\* The boxes detected for the image, and box r (integers, in pixels) as a
\* detector box (in half pixels).
DetectedBoxes == {yolo_results[1][k] : k \in 1..Len(yolo_results[1])}

SameBox(r, b) == \A k \in 1..4 : 2 * r[k] = b[k]

Ran == stage = "crop" /\ card_detector = "loaded" /\ DetectedBoxes # {}

\* The original C12: the box returned is one of the detected boxes, of an
\* area no other detected box exceeds.
C12_ReturnsLargestOfSet ==
  Ran => \E b \in DetectedBoxes :
           /\ SameBox(detected, b)
           /\ \A o \in DetectedBoxes : Area(o) <= Area(b)

\* C12 (amended): for a non-empty set of detected boxes, box selection
\* returns a box of the set whose area is greater than or equal to the area
\* of every other box, with each coordinate truncated to an integer; it is
\* that box itself when its coordinates are whole numbers.
C12_ReturnsLargestTruncated ==
  Ran => \E b \in DetectedBoxes :
           /\ \A o \in DetectedBoxes : Area(o) <= Area(b)
           /\ \A k \in 1..4 : 2 * detected[k] <= b[k] /\ b[k] < 2 * detected[k] + 2

\* Of two detected boxes the second one is the larger and has whole
\* coordinates, and it is the box returned.
C12_Witness ==
  /\ Ran
  /\ Len(yolo_results[1]) = 2
  /\ Area(yolo_results[1][1]) < Area(yolo_results[1][2])
  /\ SameBox(detected, yolo_results[1][2])

\* ===================================================== process_id_card
\* padding = 10 of crop_id_card.
Padding == 10

Maximum(a, b) == IF a >= b THEN a ELSE b

Minimum(a, b) == IF a <= b THEN a ELSE b

\* An image region (x1, y1, x2, y2) in pixels; the whole image of a file.
WholeImage(img) == <<0, 0, img.size[1], img.size[2]>>

Opened(region) == [kind |-> "ok", region |-> region]

Failed(error) == [kind |-> error, region |-> <<>>]

\* Mutant of crop_id_card: the "if bbox:" test is missing, and unpacking None
\* raises TypeError.
crop_id_card_unguarded(img, box) ==
  IF ~img.readable THEN Failed("cannot open image")
  ELSE IF box = None THEN Failed("TypeError")
  ELSE Opened(<<Maximum(0, box[1] - Padding), Maximum(0, box[2] - Padding),
                Minimum(img.size[1], box[3] + Padding),
                Minimum(img.size[2], box[4] + Padding)>>)

\* Mutant of crop_id_card: the padded box is not clamped to the image.
crop_id_card_unclamped(img, box) ==
  IF ~img.readable THEN Failed("cannot open image")
  ELSE IF box # None
    THEN Opened(<<box[1] - Padding, box[2] - Padding, box[3] + Padding, box[4] + Padding>>)
    ELSE Opened(WholeImage(img))

\* crop_id_card: Image.open, then the padded and clamped crop when there is
\* a box (a 4-tuple is always true), the image itself otherwise.
crop_id_card(img, box) ==
  IF ~img.readable THEN Failed("cannot open image")
  ELSE IF box # None
    THEN Opened(<<Maximum(0, box[1] - Padding), Maximum(0, box[2] - Padding),
                  Minimum(img.size[1], box[3] + Padding),
                  Minimum(img.size[2], box[4] + Padding)>>)
    ELSE Opened(WholeImage(img))

\* The image region the engine reads: PaddleOCR gets the array of the image
\* passed in, EasyOCR gets image_path.
engine_input(engine, cropped, img) ==
  IF engine = "PaddleOCR" THEN cropped ELSE WholeImage(img)

\* The center as the parser reads it; the polygons used here have whole means.
CenterPoint(c) == <<c.x[1] \div c.x[2], c.y[1] \div c.y[2]>>

\* One entry of extracted_data.
text_item(line) ==
  [text |-> line.text, confidence |-> line.confidence, bbox |-> line.bbox,
   center |-> CenterPoint(get_bbox_center(line.bbox))]

\* Mutant of extract_text_with_coordinates: without an engine no text is
\* found, and nothing is raised.
extract_text_with_coordinates_lenient(engine, output) ==
  IF engine = "not loaded" THEN [kind |-> "ok", items |-> <<>>]
  ELSE IF output.raises \/ \E k \in 1..Len(output.lines) :
                             get_bbox_center(output.lines[k].bbox).kind # "ok"
    THEN [kind |-> "Error in text extraction", items |-> <<>>]
    ELSE [kind |-> "ok", items |-> [k \in 1..Len(output.lines) |-> text_item(output.lines[k])]]

\* extract_text_with_coordinates: the list of items, or the error raised.
extract_text_with_coordinates(engine, output) ==
  IF engine = "not loaded" THEN [kind |-> "OCR engine not loaded", items |-> <<>>]
  ELSE IF output.raises \/ \E k \in 1..Len(output.lines) :
                             get_bbox_center(output.lines[k].bbox).kind # "ok"
    THEN [kind |-> "Error in text extraction", items |-> <<>>]
    ELSE [kind |-> "ok", items |-> [k \in 1..Len(output.lines) |-> text_item(output.lines[k])]]

\* parse_id_card_data as a function of its argument.
RECURSIVE parse_items(_, _)
parse_items(d, items) ==
  IF items = <<>> THEN d ELSE parse_items(ProcessItem(d, Head(items)), Tail(items))

parse_id_card_data(items) == parse_items(NewIdData, sorted(items))

\* np.mean of the confidences, 0 for no item.
avg_confidence(items) ==
  IF items = <<>> THEN Quotient(0, 1)
  ELSE Quotient(SumSeq([k \in 1..Len(items) |-> items[k].confidence]), Len(items))

\* Mutant of success_result: card_detected is always true.
success_result_flag(box, items) ==
  [success |-> TRUE,
   card_detected |-> TRUE,
   bbox |-> box,
   extracted_data |-> parse_id_card_data(items),
   raw_ocr_results |-> items,
   confidence_scores |-> [k \in 1..Len(items) |-> items[k].confidence],
   avg_confidence |-> avg_confidence(items)]

\* The two dicts process_id_card returns (image_path left out).
success_result(box, items) ==
  [success |-> TRUE,
   card_detected |-> box # None,
   bbox |-> box,
   extracted_data |-> parse_id_card_data(items),
   raw_ocr_results |-> items,
   confidence_scores |-> [k \in 1..Len(items) |-> items[k].confidence],
   avg_confidence |-> avg_confidence(items)]

failure_result(error) == [success |-> FALSE, error |-> error]

\* ---------------------------------------------------------------- inputs
\* Largest number of lines the OCR engine returns.
MaxOcrLines == 1

ImageSize == <<40, 30>>

\* What the detector returns for the image: no box, one box inside the
\* image, or that box and a larger one at the lower right border.
ProcessResults ==
  { << <<>> >>,
    << <<<<25, 22, 50, 45>>>> >>,
    << <<<<25, 22, 50, 45>>, <<40, 20, 80, 60>>>> >> }

\* Polygons of OCR lines: two quadrilaterals and a 3-point polygon.
ProcessPolygons ==
  { <<<<0, 0>>, <<8, 0>>, <<8, 4>>, <<0, 4>>>>,
    <<<<0, 8>>, <<8, 8>>, <<8, 12>>, <<0, 12>>>>,
    <<<<0, 0>>, <<8, 0>>, <<8, 4>>>> }

\* Confidences in percent.
OcrLines ==
  [text : {Pool[4], Pool[13]}, confidence : {50, 90}, bbox : ProcessPolygons]

ProcessInit ==
  /\ card_detector \in {"not loaded", "loaded", "raises"}
  /\ yolo_results \in ProcessResults
  /\ image \in [size : {ImageSize}, readable : BOOLEAN]
  /\ ocr_engine \in {"not loaded", "PaddleOCR", "EasyOCR"}
  /\ ocr_output \in [raises : BOOLEAN, lines : BoxSeqsUpTo(OcrLines, MaxOcrLines)]
  /\ stage = "detect"
  /\ detected = None
  /\ cropped_card = <<>>
  /\ ocr_read = <<>>
  /\ ocr_items = <<>>
  /\ result = <<>>
  /\ IdleExcept({"process"})

\* Step 2: cropped_card = self.crop_id_card(image_path, bbox); an exception
\* ends the pipeline in the except branch.
Crop ==
  /\ stage = "crop"
  /\ LET c == crop_id_card(image, detected)
     IN  IF c.kind = "ok"
           THEN /\ cropped_card' = c.region
                /\ stage' = "ocr"
                /\ UNCHANGED result
           ELSE /\ result' = failure_result(c.kind)
                /\ stage' = "done"
                /\ UNCHANGED cropped_card
  /\ UNCHANGED <<card_detector, yolo_results, image, ocr_engine, ocr_output,
                 detected, ocr_read, ocr_items>>
  /\ Frame({"process"})

\* Step 3: extracted_text = self.extract_text_with_coordinates(cropped_card,
\* image_path).
Ocr ==
  /\ stage = "ocr"
  /\ LET e == extract_text_with_coordinates(ocr_engine, ocr_output)
     IN  /\ ocr_read' = IF ocr_engine = "not loaded" THEN ocr_read
                        ELSE engine_input(ocr_engine, cropped_card, image)
         /\ IF e.kind = "ok"
              THEN /\ ocr_items' = e.items
                   /\ stage' = "parse"
                   /\ UNCHANGED result
              ELSE /\ result' = failure_result(e.kind)
                   /\ stage' = "done"
                   /\ UNCHANGED ocr_items
  /\ UNCHANGED <<card_detector, yolo_results, image, ocr_engine, ocr_output,
                 detected, cropped_card>>
  /\ Frame({"process"})

\* Step 4 and the return: parse_id_card_data and the success dict.
ParseAndReturn ==
  /\ stage = "parse"
  /\ result' = success_result(detected, ocr_items)
  /\ stage' = "done"
  /\ UNCHANGED <<card_detector, yolo_results, image, ocr_engine, ocr_output,
                 detected, cropped_card, ocr_read, ocr_items>>
  /\ Frame({"process"})

ProcessNext == Detect \/ Crop \/ Ocr \/ ParseAndReturn

SpecProcess == ProcessInit /\ [][ProcessNext]_allVars

\* ------------------------------------------------------------ claim C13
\* The detector gives no region: it is not loaded, it raises, or no result
\* of it holds a box.
NoRegion ==
  \/ card_detector \in {"not loaded", "raises"}
  \/ \A k \in 1..Len(yolo_results) : yolo_results[k] = <<>>

\* The OCR step can succeed: an engine is loaded, it returns, and each line
\* comes with a polygon of at least four points.
OcrWorks ==
  /\ ocr_engine # "not loaded"
  /\ ~ocr_output.raises
  /\ \A k \in 1..Len(ocr_output.lines) : Len(ocr_output.lines[k].bbox) >= 4

TextsOf(items) == [k \in 1..Len(items) |-> items[k].text]

\* C13: when the detector returns no region (or is not loaded, or raises),
\* detect_id_card yields no box and process_id_card proceeds: the image is
\* left uncropped, OCR reads the full image and the parser gets its lines,
\* and the result is a success with card_detected false and bbox absent;
\* it fails only when the image cannot be opened or the OCR step fails.
C13_NoRegionProceeds ==
  (NoRegion /\ stage # "detect") =>
    /\ detected = None
    /\ stage \in {"ocr", "parse"} => cropped_card = WholeImage(image)
    /\ stage = "parse" => ocr_read = WholeImage(image)
    /\ stage = "done" =>
         /\ result.success <=> (image.readable /\ OcrWorks)
         /\ result.success =>
              /\ ~result.card_detected
              /\ result.bbox = None
              /\ cropped_card = WholeImage(image)
              /\ ocr_read = WholeImage(image)
              /\ TextsOf(result.raw_ocr_results) = TextsOf(ocr_output.lines)
              /\ result.extracted_data = parse_id_card_data(result.raw_ocr_results)

\* Witness of C13: a loaded detector found no box, and the pipeline ended in
\* a success that parsed an address line read from the full image.
C13_Witness ==
  /\ stage = "done"
  /\ card_detector = "loaded"
  /\ NoRegion
  /\ ocr_engine = "PaddleOCR"
  /\ result.success
  /\ ~result.card_detected
  /\ Len(result.raw_ocr_results) = 1
  /\ result.extracted_data.address # EmptyStr

\* ============================================================ HTTP layer
AllowedExtensions ==
  { <<"p", "n", "g">>, <<"j", "p", "g">>, <<"j", "p", "e", "g">>,
    <<"g", "i", "f">>, <<"b", "m", "p">>, <<"w", "e", "b", "p">> }

\* filename.rsplit('.', 1)[1]: what follows the last dot.
RECURSIVE AfterLastDot(_)
AfterLastDot(s) ==
  IF Contains(Tail(s), <<".">>) \/ Head(s) # "." THEN AfterLastDot(Tail(s)) ELSE Tail(s)

\* allowed_file(filename)
allowed_file(filename) ==
  /\ Contains(filename, <<".">>)
  /\ lower(AfterLastDot(filename)) \in AllowedExtensions

\* jsonify(...), status
Response(status, body) == [status |-> status, body |-> body]

ErrorBody(error) == [success |-> FALSE, error |-> error]

\* round(avg, 4) of a confidence given in percent, in ten-thousandths.
round4(q) == Quotient((200 * q[1] + q[2]) \div (2 * q[2]), 10000)

\* ----------------------------------------------- batch_process_id_cards
\* Largest number of files in one batch request.
MaxFiles == 2

\* '', 'a.JPG', 'a.exe', 'jpg'
Filenames ==
  { <<>>, <<"a", ".", "J", "P", "G">>, <<"a", ".", "e", "x", "e">>, <<"j", "p", "g">> }

\* What process_id_card returns for an uploaded file.
ProcessOutcomes == {success_result(None, <<>>), failure_result("cannot open image")}

\* An uploaded file: its name, whether file.save and os.remove work for its
\* temporary path, and the result of processing it.
UploadedFiles ==
  [filename : Filenames, save_ok : BOOLEAN, remove_ok : BOOLEAN, outcome : ProcessOutcomes]

\* The entry appended to results for file i.
failure_entry(i, filename, error) ==
  [index |-> i, filename |-> filename, error |-> error, success |-> FALSE]

success_entry(i, filename, r) ==
  [index |-> i, filename |-> filename, card_detected |-> r.card_detected,
   extracted_data |-> r.extracted_data,
   avg_confidence |-> round4(r.avg_confidence), success |-> TRUE]

processed_entry(i, file) ==
  IF file.outcome.success
    THEN success_entry(i, file.filename, file.outcome)
    ELSE failure_entry(i, file.filename, file.outcome.error)

\* The clean-up loop over uploaded_files: the paths left on disk and whether
\* os.remove raised.
RECURSIVE cleanup(_, _, _)
cleanup(paths, files, disk) ==
  IF paths = <<>> THEN [disk |-> disk, raised |-> FALSE]
  ELSE IF Head(paths) \notin disk THEN cleanup(Tail(paths), files, disk)
  ELSE IF ~files[Head(paths) + 1].remove_ok THEN [disk |-> disk, raised |-> TRUE]
  ELSE cleanup(Tail(paths), files, disk \ {Head(paths)})

\* Mutant of batch_ok_body: every result is counted as an extraction.
batch_ok_body_all(files, results) ==
  [success |-> TRUE,
   total_files |-> Len(files),
   successful_extractions |-> Len(results),
   results |-> results]

\* The body of the 200 response.
batch_ok_body(files, results) ==
  [success |-> TRUE,
   total_files |-> Len(files),
   successful_extractions |->
     Cardinality({k \in 1..Len(results) : results[k].success}),
   results |-> results]

BatchInit ==
  /\ batch_service \in {"None", "available"}
  /\ batch_files \in SeqsUpTo(UploadedFiles, MaxFiles)
  /\ batch_i = 0
  /\ batch_results = <<>>
  /\ uploaded_files = <<>>
  /\ batch_disk = {}
  /\ batch_response = <<>>
  /\ batch_pc = "start"
  /\ IdleExcept({"batch"})

\* The checks before the loop: 503 without the service, 400 without files.
BatchCheck ==
  /\ batch_pc = "start"
  /\ IF batch_service = "None"
       THEN /\ batch_response' = Response(503, ErrorBody("ID Card service not available"))
            /\ batch_pc' = "done"
       ELSE IF batch_files = <<>>
         THEN /\ batch_response' = Response(400, ErrorBody("No image files provided"))
              /\ batch_pc' = "done"
         ELSE /\ batch_pc' = "loop"
              /\ UNCHANGED batch_response
  /\ UNCHANGED <<batch_service, batch_files, batch_i, batch_results,
                 uploaded_files, batch_disk>>
  /\ Frame({"batch"})

\* One iteration of "for i, file in enumerate(files)". The file's temporary
\* path is named by its index i. An exception of file.save leaves the loop:
\* the handler removes the uploaded files and the request ends with 500.
\* file.save opens the path and copies the stream: when it raises, the file
\* was not created, or it was and holds a part of the upload; its path is
\* not yet in uploaded_files.
BatchFile ==
  /\ batch_pc = "loop"
  /\ batch_i < Len(batch_files)
  /\ LET file == batch_files[batch_i + 1]
     IN  IF file.filename = <<>>
           THEN /\ batch_results' = Append(batch_results,
                                           failure_entry(batch_i, <<>>, "Empty filename"))
                /\ batch_i' = batch_i + 1
                /\ UNCHANGED <<uploaded_files, batch_disk, batch_response, batch_pc>>
         ELSE IF ~allowed_file(file.filename)
           THEN /\ batch_results' = Append(batch_results,
                                           failure_entry(batch_i, file.filename, "File type not allowed"))
                /\ batch_i' = batch_i + 1
                /\ UNCHANGED <<uploaded_files, batch_disk, batch_response, batch_pc>>
         ELSE IF ~file.save_ok
           THEN /\ \E partial \in SUBSET {batch_i} :
                     batch_disk' = cleanup(uploaded_files, batch_files, batch_disk).disk
                                     \cup partial
                /\ batch_response' = Response(500, ErrorBody("Internal server error"))
                /\ batch_pc' = "done"
                /\ UNCHANGED <<batch_results, batch_i, uploaded_files>>
         ELSE /\ uploaded_files' = Append(uploaded_files, batch_i)
              /\ batch_disk' = batch_disk \cup {batch_i}
              /\ batch_results' = Append(batch_results, processed_entry(batch_i, file))
              /\ batch_i' = batch_i + 1
              /\ UNCHANGED <<batch_response, batch_pc>>
  /\ UNCHANGED <<batch_service, batch_files>>
  /\ Frame({"batch"})

\* After the loop: the clean-up and the 200 response, or 500 when os.remove
\* raises.
BatchReturn ==
  /\ batch_pc = "loop"
  /\ batch_i = Len(batch_files)
  /\ LET c == cleanup(uploaded_files, batch_files, batch_disk)
     IN  /\ batch_disk' = c.disk
         /\ batch_response' =
              IF c.raised THEN Response(500, ErrorBody("Internal server error"))
              ELSE Response(200, batch_ok_body(batch_files, batch_results))
  /\ batch_pc' = "done"
  /\ UNCHANGED <<batch_service, batch_files, batch_i, batch_results, uploaded_files>>
  /\ Frame({"batch"})

BatchNext == BatchCheck \/ BatchFile \/ BatchReturn

SpecBatch == BatchInit /\ [][BatchNext]_allVars

\* ------------------------------------------------------------ claim C14
\* The files of the request that are not file k.
Others(k) == (1..Len(batch_files)) \ {k}

\* A result for file k is part of the response.
HasResult(k) ==
  /\ batch_response.status = 200
  /\ \E e \in 1..Len(batch_response.body.results) :
       batch_response.body.results[e].index = k - 1

\* Handling file k fails: its name is invalid, it cannot be saved, or
\* processing it fails.
HandlingFails(k) ==
  \/ batch_files[k].filename = <<>>
  \/ ~allowed_file(batch_files[k].filename)
  \/ ~batch_files[k].save_ok
  \/ ~batch_files[k].outcome.success

\* C14: in a batch request whose temporary files can all be removed, a
\* failure while handling one file (invalid name, failure to save it, or a
\* processing error) does not abort the others: every other file gets its
\* own result in the response.
C14_FailureIsolatedPerItem ==
  (/\ batch_pc = "done"
   /\ batch_service = "available"
   /\ \A k \in 1..Len(batch_files) : batch_files[k].remove_ok) =>
    \A k \in 1..Len(batch_files) :
      HandlingFails(k) => \A o \in Others(k) : HasResult(o)

\* ------------------------------------------------------------ claim C15
\* C15: a 200 response of the batch endpoint has exactly one entry per
\* uploaded file, in upload order, the i-th entry carrying index i (from 0),
\* the file's name and a boolean success; total_files is the number of
\* entries and successful_extractions the number of entries with success
\* true.
C15_ResultsPerIndex ==
  (batch_pc = "done" /\ batch_response.status = 200) =>
    LET body == batch_response.body
    IN  /\ Len(body.results) = Len(batch_files)
        /\ \A k \in 1..Len(body.results) :
             /\ body.results[k].index = k - 1
             /\ body.results[k].filename = batch_files[k].filename
             /\ body.results[k].success \in BOOLEAN
        /\ body.total_files = Len(body.results)
        /\ body.successful_extractions =
             Cardinality({k \in 1..Len(body.results) : body.results[k].success = TRUE})

\* Witness of C15: a 200 response for two files, the first rejected for its
\* name and the second extracted.
C15_Witness ==
  /\ batch_pc = "done"
  /\ batch_response.status = 200
  /\ Len(batch_response.body.results) = 2
  /\ ~batch_response.body.results[1].success
  /\ batch_response.body.results[2].success
  /\ batch_response.body.successful_extractions = 1

\* ------------------- detect_and_extract_id_card and its base64 variant
\* The "data" object of a 200 response.
extract_data(r) ==
  [card_detected |-> r.card_detected,
   extracted_data |-> r.extracted_data,
   confidence |->
     [average |-> round4(r.avg_confidence),
      individual_scores |->
        [k \in 1..Len(r.confidence_scores) |-> round4(Quotient(r.confidence_scores[k], 1))]],
   processing_info |->
     [bbox |-> r.bbox, total_text_items |-> Len(r.raw_ocr_results)]]

\* The response for the result of process_id_card.
result_response(r) ==
  IF r.success THEN Response(200, [success |-> TRUE, data |-> extract_data(r)])
  ELSE Response(500, ErrorBody(r.error))

InternalError == Response(500, ErrorBody("Internal server error"))

\* What process_id_card returns for the image of a request: a success with
\* one parsed line, or a failure.
HttpOutcomes ==
  { success_result(None, <<text_item([text |-> Pool[13], confidence |-> 90,
                                      bbox |-> <<<<0, 0>>, <<8, 0>>, <<8, 4>>, <<0, 4>>>>])>>),
    failure_result("OCR engine not loaded") }

\* The body of a base64 request: bytes that are not JSON sent as JSON, a body
\* sent with another content type, a JSON object without image_base64, one
\* whose image_base64 does not decode to an image, one that holds an image.
Base64Bodies ==
  {"malformed JSON", "not JSON content type", "no image_base64",
   "undecodable image_base64", "image"}

\* A request: its input ('image' in request.files and the file's name, or
\* the body), whether writing and removing the temporary file work, and the
\* result of processing the image.
UploadRequests ==
  [has_image : BOOLEAN, filename : Filenames,
   write_ok : BOOLEAN, remove_ok : BOOLEAN, outcome : HttpOutcomes]

Base64Requests ==
  [body : Base64Bodies, write_ok : BOOLEAN, remove_ok : BOOLEAN, outcome : HttpOutcomes]

HttpInit ==
  /\ http_endpoint \in {"detect-and-extract", "detect-and-extract-base64"}
  /\ http_service \in {"None", "available"}
  /\ http_request \in IF http_endpoint = "detect-and-extract"
                        THEN UploadRequests ELSE Base64Requests
  /\ http_disk = {}
  /\ http_response = <<>>
  /\ http_pc = "start"
  /\ IdleExcept({"http"})

HttpRespond(response) ==
  /\ http_response' = response
  /\ http_pc' = "done"

\* The checks of detect_and_extract_id_card before the file is saved.
UploadValidate ==
  /\ http_endpoint = "detect-and-extract"
  /\ http_pc = "start"
  /\ IF http_service = "None"
       THEN HttpRespond(Response(503, ErrorBody("ID Card Service not available")))
     ELSE IF ~http_request.has_image
       THEN HttpRespond(Response(400, ErrorBody("No image file provided")))
     ELSE IF http_request.filename = <<>>
       THEN HttpRespond(Response(400, ErrorBody("No image file selected")))
     ELSE IF ~allowed_file(http_request.filename)
       THEN HttpRespond(Response(400, ErrorBody("File type not allowed")))
     ELSE http_pc' = "save" /\ UNCHANGED http_response
  /\ UNCHANGED <<http_endpoint, http_service, http_request, http_disk>>
  /\ Frame({"http"})

\* file.save(file_path): its exception reaches the outer handler; the file
\* was not created, or it was and holds a part of the upload.
UploadSave ==
  /\ http_endpoint = "detect-and-extract"
  /\ http_pc = "save"
  /\ IF http_request.write_ok
       THEN /\ http_disk' = {"file_path"}
            /\ http_pc' = "process"
            /\ UNCHANGED http_response
       ELSE /\ HttpRespond(InternalError)
            /\ http_disk' \in SUBSET {"file_path"}
  /\ UNCHANGED <<http_endpoint, http_service, http_request>>
  /\ Frame({"http"})

\* process_id_card, os.remove and the response; an exception of os.remove
\* reaches the outer handler.
ProcessAndRespond ==
  /\ http_pc = "process"
  /\ IF http_request.remove_ok
       THEN /\ http_disk' = {}
            /\ HttpRespond(result_response(http_request.outcome))
       ELSE /\ HttpRespond(InternalError)
            /\ UNCHANGED http_disk
  /\ UNCHANGED <<http_endpoint, http_service, http_request>>
  /\ Frame({"http"})

\* The statuses request.get_json() and the checks of the base64 endpoint can
\* end in for a body; {} when the handler goes on to decode. get_json raises
\* for malformed JSON; for another content type it returns None or raises,
\* depending on the Flask version. What it raises is caught as Exception.
base64_rejections(body) ==
  IF body = "malformed JSON" THEN {500}
  ELSE IF body = "not JSON content type" THEN {400, 500}
  ELSE IF body = "no image_base64" THEN {400}
  ELSE {}

Base64Validate ==
  /\ http_endpoint = "detect-and-extract-base64"
  /\ http_pc = "start"
  /\ IF http_service = "None"
       THEN HttpRespond(Response(503, ErrorBody("ID Card Service not available")))
     ELSE IF base64_rejections(http_request.body) # {}
       THEN \E status \in base64_rejections(http_request.body) :
              IF status = 400
                THEN HttpRespond(Response(400, ErrorBody("No base64 image data provided")))
                ELSE HttpRespond(InternalError)
     ELSE http_pc' = "save" /\ UNCHANGED http_response
  /\ UNCHANGED <<http_endpoint, http_service, http_request, http_disk>>
  /\ Frame({"http"})

\* The try of lines 139-152: b64decode, Image.open and image.save; whatever
\* one of them raises is answered with 400. When image.save raises, the file
\* was not created or was removed again by the imaging library, or it is left
\* with a part of the image.
Base64Decode ==
  /\ http_endpoint = "detect-and-extract-base64"
  /\ http_pc = "save"
  /\ IF http_request.body = "image" /\ http_request.write_ok
       THEN /\ http_disk' = {"file_path"}
            /\ http_pc' = "process"
            /\ UNCHANGED http_response
       ELSE /\ HttpRespond(Response(400, ErrorBody("Invalid base64 image data")))
            /\ IF http_request.body = "image"
                 THEN http_disk' \in SUBSET {"file_path"}
                 ELSE UNCHANGED http_disk
  /\ UNCHANGED <<http_endpoint, http_service, http_request>>
  /\ Frame({"http"})

HttpNext ==
  UploadValidate \/ UploadSave \/ Base64Validate \/ Base64Decode \/ ProcessAndRespond

SpecHttp == HttpInit /\ [][HttpNext]_allVars

\* ------------------------------------------------------------ claim C16
\* The request input is invalid: missing, empty or disallowed file; body
\* that is not JSON, missing or undecodable base64 image.
InvalidInput ==
  IF http_endpoint = "detect-and-extract"
    THEN \/ ~http_request.has_image
         \/ http_request.filename = <<>>
         \/ ~allowed_file(http_request.filename)
    ELSE http_request.body # "image"

\* Writing or removing the temporary file fails, or processing fails.
ProcessingOrIoFailure ==
  \/ ~http_request.write_ok
  \/ ~http_request.remove_ok
  \/ ~http_request.outcome.success

\* C16: a response of the two single-image POST endpoints is 503 exactly
\* when the service is unavailable, 400 exactly when the service is available
\* and the input is invalid, and 500 only for a valid input whose processing
\* or file I/O failed.
C16_FailureKindsDistinguishable ==
  http_pc = "done" =>
    /\ http_response.status = 503 <=> http_service = "None"
    /\ http_response.status = 400 <=> (http_service = "available" /\ InvalidInput)
    /\ http_response.status = 500 => (~InvalidInput /\ ProcessingOrIoFailure)

\* ===================================== successive calls of the heuristic
\* Largest number of calls in a run, and of items in one argument.
MaxCalls == 3
MaxCallItems == 1

\* Arguments of the calls: an address line, a second address line below it,
\* and a name line.
CallItems ==
  { [text |-> Pool[13], center |-> <<0, 0>>],
    [text |-> Pool[14], center |-> <<0, 1>>],
    [text |-> Pool[4], center |-> <<0, 0>>] }

CallInputs == SeqsUpTo(CallItems, MaxCallItems)

CallsInit ==
  /\ extracted_text \in CallInputs
  /\ sorted_text = <<>>
  /\ id_data = NewIdData
  /\ idx = 0
  /\ pc = "call"
  /\ history = <<>>
  /\ IdleExcept({"parse", "calls"})

\* The caller keeps what the finished call returned and calls again with
\* another argument. The function holds no attribute of self: the locals of
\* the finished call are what the model's variables still show.
NextCall ==
  /\ pc = "done"
  /\ Len(history) < MaxCalls - 1
  /\ history' = Append(history, [input |-> extracted_text, record |-> id_data])
  /\ extracted_text' \in CallInputs
  /\ pc' = "call"
  /\ UNCHANGED <<sorted_text, id_data, idx>>
  /\ Frame({"parse", "calls"})

CallsNext == Begin \/ LoopBody \/ Return \/ NextCall

SpecCalls == CallsInit /\ [][CallsNext]_allVars

\* ------------------------------------------------------------ claim C19
\* The finished calls, the one that has just returned included.
FinishedCalls ==
  IF pc = "done"
    THEN Append(history, [input |-> extracted_text, record |-> id_data])
    ELSE history

C19_SameInputSameRecord ==
  \A i, j \in 1..Len(FinishedCalls) :
    FinishedCalls[i].input = FinishedCalls[j].input
      => FinishedCalls[i].record = FinishedCalls[j].record

C19_InputUntouched == pc # "done" => extracted_text' = extracted_text

C19_FreshRecord ==
  pc = "call" => \A f \in FieldNames : id_data'[f] = <<>>

\* C19: parse_id_card_data is pure and stateless across calls: a call does
\* not modify its argument, every call starts from a fresh record with the
\* seven fields empty, and two calls with the same argument return equal
\* records whatever calls happened in between.
C19_PureAndStateless ==
  /\ []C19_SameInputSameRecord
  /\ [][C19_InputUntouched /\ C19_FreshRecord]_allVars

\* Witness of C19: three calls returned, the first and the third with the
\* same argument and a call that found another address in between.
C19_Witness ==
  /\ pc = "done"
  /\ Len(history) = 2
  /\ history[1].input = extracted_text
  /\ history[2].input # extracted_text
  /\ history[1].record.address # <<>>
  /\ history[2].record.address # <<>>
  /\ history[2].record.address # history[1].record.address
  /\ id_data = history[1].record

\* =========================================== requests handled in parallel
Requests == {1, 2}

\* Number of values uuid4 can still return; it never returns a value twice.
MaxUuids == 2

Uuids == 1..MaxUuids

uuid4(issued) == Uuids \ issued

\* Mutant of temp_path: the temporary file is named after the upload alone.
temp_path_named(filename, u) ==
  [stem |-> "id_card", uuid |-> 0, ext |-> lower(AfterLastDot(filename))]

\* os.path.join(UPLOAD_FOLDER, f"id_card_{uuid.uuid4().hex}.{file_extension}")
temp_path(filename, u) ==
  [stem |-> "id_card", uuid |-> u, ext |-> lower(AfterLastDot(filename))]

\* The images uploaded, by the line OCR finds on them.
Images == {4, 13}

\* process_id_card for a file holding the image.
ImageOutcome(img) ==
  success_result(None, <<text_item([text |-> Pool[img], confidence |-> 90,
                                    bbox |-> <<<<0, 0>>, <<8, 0>>, <<8, 4>>, <<0, 4>>>>])>>)

ConcNames == { <<"a", ".", "J", "P", "G">>, <<"b", ".", "p", "n", "g">> }

\* The files of the upload folder at a path.
FilesAt(path) == {f \in conc_disk : f.path = path}

\* Who wrote the file at a path; 0 when there is none.
WriterAt(path) ==
  IF FilesAt(path) = {} THEN 0 ELSE (CHOOSE f \in FilesAt(path) : TRUE).writer

Logged(op, r, path) ==
  Append(conc_log, [op |-> op, by |-> r, path |-> path, writer |-> WriterAt(path)])

ConcInit ==
  /\ conc_upload \in [Requests -> [filename : ConcNames, image : Images]]
  /\ conc_pc = [r \in Requests |-> "save"]
  /\ conc_path = [r \in Requests |-> <<>>]
  /\ conc_result = [r \in Requests |-> <<>>]
  /\ conc_response = [r \in Requests |-> <<>>]
  /\ conc_disk = {}
  /\ conc_issued = {}
  /\ conc_log = <<>>
  /\ IdleExcept({"conc"})

\* Lines 61-67: the unique name and file.save(file_path).
ConcSave(r) ==
  /\ conc_pc[r] = "save"
  /\ \E u \in uuid4(conc_issued) :
       LET path == temp_path(conc_upload[r].filename, u)
       IN  /\ conc_issued' = conc_issued \cup {u}
           /\ conc_path' = [conc_path EXCEPT ![r] = path]
           /\ conc_disk' = (conc_disk \ FilesAt(path)) \cup
                             {[path |-> path, writer |-> r, content |-> conc_upload[r].image]}
           /\ conc_log' = Logged("write", r, path)
  /\ conc_pc' = [conc_pc EXCEPT ![r] = "process"]
  /\ UNCHANGED <<conc_upload, conc_result, conc_response>>
  /\ Frame({"conc"})

\* Line 71: process_id_card(file_path) opens the file at the path.
ConcProcess(r) ==
  /\ conc_pc[r] = "process"
  /\ conc_result' =
       [conc_result EXCEPT ![r] =
          IF FilesAt(conc_path[r]) = {} THEN failure_result("cannot open image")
          ELSE ImageOutcome((CHOOSE f \in FilesAt(conc_path[r]) : TRUE).content)]
  /\ conc_log' = Logged("read", r, conc_path[r])
  /\ conc_pc' = [conc_pc EXCEPT ![r] = "remove"]
  /\ UNCHANGED <<conc_upload, conc_path, conc_response, conc_disk, conc_issued>>
  /\ Frame({"conc"})

\* Lines 74-104: os.remove(file_path) and the response; os.remove raises
\* when the file is gone.
ConcRemove(r) ==
  /\ conc_pc[r] = "remove"
  /\ conc_disk' = conc_disk \ FilesAt(conc_path[r])
  /\ conc_log' = Logged("remove", r, conc_path[r])
  /\ conc_response' =
       [conc_response EXCEPT ![r] =
          IF FilesAt(conc_path[r]) = {} THEN InternalError
          ELSE result_response(conc_result[r])]
  /\ conc_pc' = [conc_pc EXCEPT ![r] = "done"]
  /\ UNCHANGED <<conc_upload, conc_path, conc_result, conc_issued>>
  /\ Frame({"conc"})

ConcNext == \E r \in Requests : ConcSave(r) \/ ConcProcess(r) \/ ConcRemove(r)

SpecConc == ConcInit /\ [][ConcNext]_allVars

\* ------------------------------------------------------------ claim C20
\* The response of request r when it is the only request: a 200 whose data
\* come from the image it uploaded.
AloneResponse(r) ==
  [status |-> 200,
   body |-> [success |-> TRUE, data |-> extract_data(ImageOutcome(conc_upload[r].image))]]

\* A file operation touched a file another request wrote.
ForeignAccess(e) == e.writer # 0 /\ e.writer # e.by

\* C20: in every interleaving of two requests, the two temporary paths
\* differ, no request reads, overwrites or removes a file the other wrote,
\* and each response is the one the request gets when run alone.
C20_RequestsIndependent ==
  /\ \A r, q \in Requests :
       (r # q /\ conc_pc[r] # "save" /\ conc_pc[q] # "save") => conc_path[r] # conc_path[q]
  /\ \A k \in 1..Len(conc_log) : ~ForeignAccess(conc_log[k])
  /\ \A r \in Requests : conc_pc[r] = "done" => conc_response[r] = AloneResponse(r)

\* Witness of C20: the two requests uploaded files of the same name with
\* different images, their steps alternated, and both have answered.
C20_Witness ==
  /\ \A r \in Requests : conc_pc[r] = "done"
  /\ conc_upload[1].filename = conc_upload[2].filename
  /\ conc_upload[1].image # conc_upload[2].image
  /\ Len(conc_log) = 6
  /\ \A k \in 1..5 : conc_log[k].by # conc_log[k + 1].by
  /\ conc_response[1] # conc_response[2]

\* ============================================ termination of the heuristic
\* Largest number of items of a call whose termination is checked.
MaxTotalItems == 4

\* An address line at the top and a gender line below it.
TotalItems ==
  { [text |-> Pool[13], center |-> <<0, 0>>],
    [text |-> Pool[12], center |-> <<0, 1>>] }

TotalInit ==
  /\ extracted_text \in SeqsUpTo(TotalItems, MaxTotalItems)
  /\ sorted_text = <<>>
  /\ id_data = NewIdData
  /\ idx = 0
  /\ pc = "call"
  /\ IdleExcept({"parse"})

\* The function is synchronous straight-line code around one for loop over a
\* list: a step that can be taken is taken.
SpecTotal == TotalInit /\ [][Next]_allVars /\ WF_allVars(Next)

\* ------------------------------------------------------------ claim C21
C21_Returned ==
  pc = "done" =>
    /\ DOMAIN id_data = FieldNames \cup {"raw_text"}
    /\ idx = Len(extracted_text) + 1
    /\ Len(id_data.raw_text) = Len(extracted_text)

C21_OncePerItem ==
  (pc = "loop" /\ pc' = "loop") =>
    /\ idx' = idx + 1
    /\ Len(id_data'.raw_text) = Len(id_data.raw_text) + 1

\* C21: parse_id_card_data is total: for every sequence of well-formed items
\* the call returns, each iteration of the loop handles the next item once,
\* and what is returned is a record with every field and one raw_text entry
\* per item.
C21_Total ==
  /\ <>(pc = "done")
  /\ []C21_Returned
  /\ [][C21_OncePerItem]_allVars

\* Witness of C21: a call on four items, the lower line first, has returned.
C21_Witness ==
  /\ pc = "done"
  /\ Len(extracted_text) = 4
  /\ extracted_text[1].center[2] > extracted_text[2].center[2]
  /\ Len(id_data.raw_text) = 4
  /\ id_data.address # <<>>

\* ------------------------------------------------------------ claim C22
\* C22: the stages run in the order detection, crop, OCR, parsing, each on
\* the output of the one before: once OCR has run, the image region the OCR
\* engine read is the cropped card the crop stage produced, for PaddleOCR
\* and for EasyOCR, and the record returned is parsed from the OCR items.
C22_OcrReadsCroppedCard ==
  (stage = "parse" \/ (stage = "done" /\ result.success)) =>
    /\ ocr_read = cropped_card
    /\ stage = "done" => result.extracted_data = parse_id_card_data(ocr_items)

\* ================================== the scan on a smaller set of OCR items
\* Largest number of items of a call in this specification.
MaxRuleItems == 2

\* Two id lines, two name lines (one with "rt" inside a word, one with a
\* date), a gender line, an address line and a line with a name, a gender
\* and a date, each at two heights.
RuleItems ==
  [text : {Pool[1], Pool[2], Pool[4], Pool[6], Pool[12], Pool[13], Pool[15]},
   center : {<<0, 0>>, <<0, 1>>}]

RulesInit ==
  /\ extracted_text \in SeqsUpTo(RuleItems, MaxRuleItems)
  /\ sorted_text = <<>>
  /\ id_data = NewIdData
  /\ idx = 0
  /\ pc = "call"
  /\ IdleExcept({"parse"})

SpecRules == RulesInit /\ [][Next]_allVars

\* ------------------------------------------------------------ claim C23
\* The items of a list whose center is at height y, in the order of the list.
AtHeight(items, y) == SelectSeq(items, LAMBDA it : it.center[2] = y)

\* C23: the sort by center y is stable: the items of equal center y are
\* scanned in the relative order they have in the OCR input, and raw_text
\* holds the trimmed lines in the order of the scan.
C23_StableSort ==
  pc \in {"loop", "done"} =>
    /\ \A y \in {extracted_text[k].center[2] : k \in 1..Len(extracted_text)} :
         AtHeight(sorted_text, y) = AtHeight(extracted_text, y)
    /\ Len(sorted_text) = Len(extracted_text)
    /\ \A k \in 1..Len(id_data.raw_text) :
         id_data.raw_text[k] = Trimmed(sorted_text[k].text)
    /\ Len(id_data.raw_text) = idx - 1

\* Witness of C23: two different id lines at the same height have been
\* parsed; the one that comes first in the input is first in raw_text and is
\* the id_number.
C23_Witness ==
  /\ pc = "done"
  /\ Len(extracted_text) = 2
  /\ extracted_text[1].center[2] = extracted_text[2].center[2]
  /\ HasIdRun(Trimmed(extracted_text[1].text))
  /\ HasIdRun(Trimmed(extracted_text[2].text))
  /\ Trimmed(extracted_text[1].text) # Trimmed(extracted_text[2].text)
  /\ id_data.raw_text[1] = Trimmed(extracted_text[1].text)
  /\ id_data.id_number = Trimmed(extracted_text[1].text)

\* ------------------------------------------------------------ claim C24
\* What each rule alone makes of its field for the line t.
IdAfter(old, t) == IF HasIdRun(t) /\ old = <<>> THEN t ELSE old

NameAfter(old, t) == IF NameRuleHolds(t) THEN Cleaned(t) ELSE old

DateAfter(old, t) == IF HasBoundedDate(t) /\ old = <<>> THEN t ELSE old

GenderAfter(old, t) == IF GenderRuleHolds(t) THEN t ELSE old

AddressAfter(old, t) ==
  IF ~AddressRuleHolds(t) THEN old
  ELSE IF old = <<>> THEN t
  ELSE old \o <<" ">> \o t

C24_Step ==
  AtLine =>
    /\ id_data'.id_number = IdAfter(id_data.id_number, Line(idx))
    /\ id_data'.name = NameAfter(id_data.name, Line(idx))
    /\ id_data'.date_of_birth = DateAfter(id_data.date_of_birth, Line(idx))
    /\ id_data'.gender = GenderAfter(id_data.gender, Line(idx))
    /\ id_data'.address = AddressAfter(id_data.address, Line(idx))

\* C24: on every line each of the five rules is evaluated on its own: the
\* value a step gives to id_number, name, date_of_birth, gender and address
\* is what that field's rule makes of the field's previous value and the
\* line, whatever the other rules do on the line, so one line can set
\* several fields in the same step.
C24_RulesIndependent == [][C24_Step]_vars

\* Witness of C24: a single line that satisfies the name rule and holds "rt"
\* inside a word has been parsed: it set name and it is the address.
C24_Witness ==
  /\ pc = "done"
  /\ NLines = 1
  /\ NameRuleHolds(Line(1))
  /\ HasToken(Line(1), <<"r", "t">>)
  /\ ~HasToken(Line(1), <<" ", "r", "t">>)
  /\ id_data.name = Cleaned(Line(1))
  /\ id_data.name # <<>>
  /\ id_data.address = Line(1)

\* ======================================================== crop_id_card alone
\* Box coordinates are multiples of Cell pixels, from 0 to one cell beyond
\* the image, which is MaxCell cells wide and high.
MaxCell == 4

Cell == 6

CropCoords == {Cell * k : k \in 0..(MaxCell + 1)}

CropBoxes == {b \in [1..4 -> CropCoords] : b[1] < b[3] /\ b[2] < b[4]}

CropInit ==
  /\ card_detector = "loaded"
  /\ yolo_results = <<>>
  /\ image \in [size : {<<Cell * MaxCell, Cell * MaxCell>>}, readable : BOOLEAN]
  /\ ocr_engine = "PaddleOCR"
  /\ ocr_output = [raises |-> FALSE, lines |-> <<>>]
  /\ stage = "crop"
  /\ detected \in CropBoxes \cup {None}
  /\ cropped_card = <<>>
  /\ ocr_read = <<>>
  /\ ocr_items = <<>>
  /\ result = <<>>
  /\ IdleExcept({"process"})

CropNext == Crop

SpecCrop == CropInit /\ [][CropNext]_allVars

\* ------------------------------------------------------------ claim C25
Inside(r, w, h) == 0 <= r[1] /\ 0 <= r[2] /\ r[3] <= w /\ r[4] <= h

Within(inner, outer) ==
  /\ outer[1] <= inner[1] /\ outer[2] <= inner[2]
  /\ inner[3] <= outer[3] /\ inner[4] <= outer[4]

\* C25: with a box (x1,y1,x2,y2) on a W x H image the crop is the rectangle
\* (max(0,x1-10), max(0,y1-10), min(W,x2+10), min(H,y2+10)); for a box inside
\* the image it lies inside the image and contains the box; with no box the
\* image is returned uncropped.
C25_CropRectangle ==
  stage = "ocr" =>
    LET w == image.size[1]
        h == image.size[2]
        x1 == detected[1]
        y1 == detected[2]
        x2 == detected[3]
        y2 == detected[4]
    IN  IF detected = None THEN cropped_card = <<0, 0, w, h>>
        ELSE /\ cropped_card[1] = (IF x1 - 10 < 0 THEN 0 ELSE x1 - 10)
             /\ cropped_card[2] = (IF y1 - 10 < 0 THEN 0 ELSE y1 - 10)
             /\ cropped_card[3] = (IF x2 + 10 > w THEN w ELSE x2 + 10)
             /\ cropped_card[4] = (IF y2 + 10 > h THEN h ELSE y2 + 10)
             /\ Inside(detected, w, h) =>
                  Inside(cropped_card, w, h) /\ Within(detected, cropped_card)

\* Witness of C25: a box inside the image was cropped with the padding cut
\* at the left and bottom edges and whole at the top and right.
C25_Witness ==
  /\ stage = "ocr"
  /\ detected # None
  /\ Inside(detected, image.size[1], image.size[2])
  /\ cropped_card[1] = 0 /\ detected[1] > 0
  /\ cropped_card[2] = detected[2] - 10
  /\ cropped_card[3] = detected[3] + 10
  /\ cropped_card[4] = image.size[2] /\ detected[4] < image.size[2]

\* ================================================ the mean of four points
\* The corners of the polygons: x is 1 or the largest odd float below
\* 2^FloatBits, y is 0 or 3.
MeanPoints == {<<x, y>> : x \in {1, 2 ^ FloatBits - 1}, y \in {0, 3}}

MeanInit ==
  /\ bbox \in [1..4 -> MeanPoints]
  /\ center = [kind |-> "pending", x |-> Quotient(0, 1), y |-> Quotient(0, 1)]
  /\ IdleExcept({"center"})

SpecMean == MeanInit /\ [][CenterNext]_allVars

\* ------------------------------------------------------------ claim C26
\* The polygon with its points listed in the order p.
Reordered(b, p) == [k \in 1..4 |-> b[p[k]]]

IsFloat(m) == \E e \in 0..4 : m % (2 ^ e) = 0 /\ m \div (2 ^ e) < 2 ^ FloatBits

\* The float nearest to n, the one with the even significand of two nearest.
Nearest(n) ==
  CHOOSE m \in 0..(2 * n) :
    /\ IsFloat(m)
    /\ \A o \in 0..(2 * n) : IsFloat(o) => 
         \/ (IF o > n THEN o - n ELSE n - o) > (IF m > n THEN m - n ELSE n - m)
         \/ o = m
         \/ /\ (IF o > n THEN o - n ELSE n - o) = (IF m > n THEN m - n ELSE n - m)
            /\ \E e \in 0..4 : m % (2 ^ (e + 1)) = 0 /\ o % (2 ^ (e + 1)) = 2 ^ e

\* a + b + c + d added from left to right, each sum rounded.
SumInOrder(a, b, c, d) == Nearest(Nearest(Nearest(a + b) + c) + d)

C27_TempFilesRemoved ==
  (http_pc = "done" /\ http_request.remove_ok) => http_disk = {}

\* ------------------------------------------------------------ claim C28
\* The result is the failure dict: success false, an error message, and no
\* extracted_data.
IsFailure(r) ==
  /\ DOMAIN r = {"success", "error"}
  /\ r.success = FALSE
  /\ r.error # ""

\* The original C28: an error in any stage, detection included, gives the
\* failure dict; parsing is not reached when OCR failed; a success carries
\* extracted_data.
C28_AnyErrorFails ==
  /\ stage = "parse" => OcrWorks
  /\ stage = "done" =>
       /\ (card_detector = "raises" \/ ~image.readable \/ ~OcrWorks) => IsFailure(result)
       /\ result.success => "extracted_data" \in DOMAIN result

\* C28 (amended): process_id_card always returns a dict. An error in
\* cropping or OCR (an engine that is not loaded included) gives success
\* false with an error message and no extracted_data, and parsing is not
\* reached when OCR failed; an error of the detector is absorbed by
\* detect_id_card as "no card" and does not fail the pipeline; a result with
\* success true carries extracted_data.
C28_CropOrOcrErrorFails ==
  /\ stage = "parse" => (image.readable /\ OcrWorks)
  /\ stage = "done" =>
       /\ "success" \in DOMAIN result
       /\ (~image.readable \/ ~OcrWorks) => IsFailure(result)
       /\ (image.readable /\ OcrWorks) => result.success
       /\ result.success => "extracted_data" \in DOMAIN result
       /\ card_detector = "raises" => detected = None

\* Witness of C28: the detector raised and the OCR engine is not loaded; the
\* image was opened, and the pipeline ended in the failure dict of the OCR
\* stage without parsing.
C28_Witness ==
  /\ stage = "done"
  /\ card_detector = "raises"
  /\ image.readable
  /\ ocr_engine = "not loaded"
  /\ cropped_card = WholeImage(image)
  /\ ocr_items = <<>>
  /\ IsFailure(result)
  /\ result.error = "OCR engine not loaded"

\* ================== detect_and_extract_id_card with process_id_card inside
\* The response of detect_and_extract_id_card for the result of
\* process_id_card: the data of a success carry the name of the upload.
upload_response(filename, r) ==
  IF r.success
    THEN Response(200, [success |-> TRUE,
                        data |-> [field \in {"filename"} \cup DOMAIN extract_data(r) |->
                                    IF field = "filename" THEN filename
                                    ELSE extract_data(r)[field]]])
    ELSE Response(500, ErrorBody(r.error))

ExtractInit ==
  /\ card_detector \in {"not loaded", "loaded", "raises"}
  /\ yolo_results \in ProcessResults
  /\ image \in [size : {ImageSize}, readable : BOOLEAN]
  /\ ocr_engine \in {"not loaded", "PaddleOCR", "EasyOCR"}
  /\ ocr_output \in [raises : BOOLEAN, lines : BoxSeqsUpTo(OcrLines, MaxOcrLines)]
  /\ stage = "idle"
  /\ detected = None
  /\ cropped_card = <<>>
  /\ ocr_read = <<>>
  /\ ocr_items = <<>>
  /\ result = <<>>
  /\ http_endpoint = "detect-and-extract"
  /\ http_service = "available"
  /\ http_request \in [has_image : {TRUE}, filename : {<<"a", ".", "J", "P", "G">>},
                       write_ok : BOOLEAN, remove_ok : {TRUE},
                       outcome : {failure_result("not processed")}]
  /\ http_disk = {}
  /\ http_response = <<>>
  /\ http_pc = "start"
  /\ IdleExcept({"process", "http"})

\* Line 71: result = id_card_service.process_id_card(file_path).
CallProcess ==
  /\ http_pc = "process"
  /\ stage = "idle"
  /\ stage' = "detect"
  /\ UNCHANGED <<card_detector, yolo_results, image, ocr_engine, ocr_output,
                 detected, cropped_card, ocr_read, ocr_items, result>>
  /\ UNCHANGED httpVars
  /\ Frame({"process", "http"})

\* Lines 73-98: os.remove(file_path) and the response for the result.
RespondWithResult ==
  /\ http_pc = "process"
  /\ stage = "done"
  /\ http_disk' = {}
  /\ HttpRespond(upload_response(http_request.filename, result))
  /\ UNCHANGED <<http_endpoint, http_service, http_request>>
  /\ UNCHANGED processVars
  /\ Frame({"process", "http"})

ExtractNext ==
  \/ UploadValidate \/ UploadSave \/ CallProcess
  \/ Detect \/ Crop \/ Ocr \/ ParseAndReturn
  \/ RespondWithResult

SpecExtract == ExtractInit /\ [][ExtractNext]_allVars

\* ------------------------------------------------------------ claim C29
\* C29: in a 200 response of /id-card/detect-and-extract,
\* processing_info.total_text_items is the length of extracted_data.raw_text
\* and of confidence.individual_scores, card_detected is true exactly when
\* processing_info.bbox is present, and confidence.average is 0 when no text
\* item was recognized.
C29_ResponsePartsAgree ==
  (http_pc = "done" /\ http_response.status = 200) =>
    LET d == http_response.body.data
    IN  /\ d.processing_info.total_text_items = Len(d.extracted_data.raw_text)
        /\ d.processing_info.total_text_items = Len(d.confidence.individual_scores)
        /\ d.card_detected <=> d.processing_info.bbox # <<>>
        /\ d.processing_info.total_text_items = 0 => d.confidence.average[1] = 0

\* Witness of C29: a 200 response for an image with a card on which no text
\* was recognized.
C29_Witness ==
  /\ http_pc = "done"
  /\ http_response.status = 200
  /\ http_response.body.data.card_detected
  /\ Len(http_response.body.data.processing_info.bbox) = 4
  /\ http_response.body.data.processing_info.total_text_items = 0
  /\ http_response.body.data.extracted_data.raw_text = <<>>
  /\ http_response.body.data.confidence.average[1] = 0

\* ================================================== NSFWDetectionService
\* Largest number of predictions the classifier returns for one image.
MaxPredictions == 2

\* Scores and the threshold are counted in hundred-thousandths; a reported
\* confidence, which has 4 decimal places, in ten-thousandths.
\* 'nsfw', 'NSFW', 'normal'
Labels ==
  { <<"n", "s", "f", "w">>, <<"N", "S", "F", "W">>, <<"n", "o", "r", "m", "a", "l">> }

\* 0.0, 0.03125, 0.5, 0.50004, 0.99999
Scores == {0, 3125, 50000, 50004, 99999}

\* threshold=0.5 of the constructor, and a stricter one.
Thresholds == {50000, 99999}

Predictions == BoxSeqsUpTo([label : Labels, score : Scores], MaxPredictions)

\* round(confidence, 4): to the nearest ten-thousandth, a half to the even one.
round_4(score) ==
  LET q == score \div 10
      r == score % 10
  IN  IF r > 5 \/ (r = 5 /\ q % 2 = 1) THEN q + 1 ELSE q

\* max(scores, default=0.0)
RECURSIVE max_default(_)
max_default(scores) ==
  IF scores = <<>> THEN 0
  ELSE LET rest == max_default(Tail(scores))
       IN  IF Tail(scores) = <<>> \/ Head(scores) > rest THEN Head(scores) ELSE rest

\* [label for label in result if label["label"].lower() == "nsfw"]
nsfw_labels(predictions) ==
  SelectSeq(predictions, LAMBDA p : lower(p.label) = <<"n", "s", "f", "w">>)

\* Mutant of any_above: a score equal to the threshold counts.
any_above_inclusive(labels, limit) ==
  \E k \in 1..Len(labels) : labels[k].score >= limit

\* any(label["score"] > self.threshold for label in nsfw_labels)
any_above(labels, limit) ==
  \E k \in 1..Len(labels) : labels[k].score > limit

\* The dict both functions return (image_path left out).
classification(predictions, limit) ==
  LET labels == nsfw_labels(predictions)
  IN  [kind |-> "ok",
       is_nsfw |-> any_above(labels, limit),
       confidence |-> round_4(max_default([k \in 1..Len(labels) |-> labels[k].score])),
       threshold |-> limit,
       all_predictions |-> predictions]

NsfwRaised(error) == [kind |-> "raise", error |-> error]

\* detect_nsfw(image_path)
detect_nsfw(call) ==
  IF ~call.exists THEN NsfwRaised("FileNotFoundError")
  ELSE IF classifier = "None" THEN NsfwRaised("RuntimeError")
  ELSE IF call.raises THEN NsfwRaised("Exception")
  ELSE classification(call.predictions, threshold)

\* detect_nsfw_from_pil_image(pil_image)
detect_nsfw_from_pil_image(call) ==
  IF classifier = "None" THEN NsfwRaised("RuntimeError")
  ELSE IF call.raises THEN NsfwRaised("Exception")
  ELSE classification(call.predictions, threshold)

NsfwInit ==
  /\ classifier \in {"loaded", "None"}
  /\ threshold \in Thresholds
  /\ nsfw_call \in [entry : {"path", "pil"}, exists : BOOLEAN, raises : BOOLEAN,
                    predictions : Predictions]
  /\ nsfw_result = <<>>
  /\ nsfw_pc = "call"
  /\ IdleExcept({"nsfw"})

DetectNsfw ==
  /\ nsfw_pc = "call"
  /\ nsfw_call.entry = "path"
  /\ nsfw_result' = detect_nsfw(nsfw_call)
  /\ nsfw_pc' = "done"
  /\ UNCHANGED <<classifier, threshold, nsfw_call>>
  /\ Frame({"nsfw"})

DetectNsfwFromPilImage ==
  /\ nsfw_pc = "call"
  /\ nsfw_call.entry = "pil"
  /\ nsfw_result' = detect_nsfw_from_pil_image(nsfw_call)
  /\ nsfw_pc' = "done"
  /\ UNCHANGED <<classifier, threshold, nsfw_call>>
  /\ Frame({"nsfw"})

NsfwNext == DetectNsfw \/ DetectNsfwFromPilImage

SpecNsfw == NsfwInit /\ [][NsfwNext]_allVars

\* ------------------------------------------------------------ claim C30
\* The scores of the predictions whose label is "nsfw" in any casing.
NsfwScoresOf(predictions) ==
  {predictions[k].score : k \in {j \in DOMAIN predictions :
     /\ Len(predictions[j].label) = 4
     /\ predictions[j].label[1] \in {"n", "N"}
     /\ predictions[j].label[2] \in {"s", "S"}
     /\ predictions[j].label[3] \in {"f", "F"}
     /\ predictions[j].label[4] \in {"w", "W"}}}

TopNsfwScore ==
  IF NsfwScoresOf(nsfw_call.predictions) = {} THEN 0
  ELSE Max(NsfwScoresOf(nsfw_call.predictions))

C30_Classified == nsfw_pc = "done" /\ nsfw_result.kind = "ok"

\* The decision of C30: is_nsfw exactly when some "nsfw" score is strictly
\* above the threshold.
C30_Decision ==
  nsfw_result.is_nsfw <=> (\E s \in NsfwScoresOf(nsfw_call.predictions) : s > threshold)

\* C30 as stated: is_nsfw is true exactly when a prediction labelled "nsfw"
\* (case-insensitive) has a score strictly greater than the threshold, and
\* the reported confidence is the maximum such score, 0 when there is none.
C30_ConfidenceIsMaxScore ==
  C30_Classified =>
    /\ C30_Decision
    /\ 10 * nsfw_result.confidence = TopNsfwScore

\* Twice the distance between a confidence in ten-thousandths and a score.
TwiceApart(c, score) ==
  IF 10 * c >= score THEN 2 * (10 * c - score) ELSE 2 * (score - 10 * c)

\* C30, amended: the decision is as stated, and the reported confidence is
\* the maximum "nsfw" score rounded to 4 decimal places (0 when there is
\* none): no ten-thousandth is nearer to that score, and it is the even one
\* when two are equally near.
C30_ConfidenceIsRoundedMax ==
  C30_Classified =>
    /\ C30_Decision
    /\ TwiceApart(nsfw_result.confidence, TopNsfwScore) <= 10
    /\ TwiceApart(nsfw_result.confidence, TopNsfwScore) = 10 =>
         nsfw_result.confidence % 2 = 0
    /\ NsfwScoresOf(nsfw_call.predictions) = {} =>
         ~nsfw_result.is_nsfw /\ nsfw_result.confidence = 0

\* Witness of C30: an upper-case "NSFW" prediction just above the threshold
\* makes the image NSFW with a reported confidence equal to the threshold,
\* next to an "nsfw" prediction whose score equals the threshold.
C30_Witness ==
  /\ C30_Classified
  /\ threshold = 50000
  /\ Len(nsfw_call.predictions) = 2
  /\ nsfw_call.predictions[1] = [label |-> <<"n", "s", "f", "w">>, score |-> 50000]
  /\ nsfw_call.predictions[2] = [label |-> <<"N", "S", "F", "W">>, score |-> 50004]
  /\ nsfw_result.is_nsfw
  /\ nsfw_result.confidence = 5000

====
